---------------------------- MODULE Spec2Model ----------------------------
(***************************************************************************)
(* Model of the social-mapping socket server (src/unnamed/part_002, the    *)
(* current websocket-server.js): connection admission, the Connection      *)
(* Registry (connections), the Presence Table (activities), the leave      *)
(* deduplicator (operationsInProgress), the asynchronous event handlers    *)
(* with their suspension points at the document store, and the durable     *)
(* Activity documents as Mongoose reads and saves them.                    *)
(***************************************************************************)
EXTENDS Integers, Sequences, FiniteSets, TLC

(***************************************************************************)
(* Bounds of the model and program constants.                              *)
(***************************************************************************)
MaxEvents == 5          \* inbound client events per behaviour
MaxTasks == 2           \* handlers suspended at the store at one time
MaxTagEvents == 3       \* inbound add_tag and vote_tag events per behaviour

MAX_CONNECTIONS == 3    \* process.env.MAX_CONNECTIONS (default 25)
SOFT_LIMIT == (MAX_CONNECTIONS * 8) \div 10

Sockets == {"s1", "s2", "s3", "s4"}
Users == {"A", "B"}
Activities == {"X", "Y"}
TagIds == {"T1", "T2"}
Null == "null"

VARIABLES
    connectionCount,       \* let connectionCount
    connections,           \* Map socketId -> { userId, activityIds }
    activities,            \* Map activityId -> Set of userIds
    operationsInProgress,  \* Set of operation keys
    isMongoConnected,      \* let isMongoConnected (and Activity loaded)
    open,                  \* sockets whose event handlers are registered
    rooms,                 \* socket.io rooms: socket -> activity ids
    db,                    \* the activities collection: id -> document
    tasks,                 \* handlers suspended at a store call
    emitted,               \* the messages the last step emitted, in order
    events,                \* number of inbound events delivered so far
    faults,                \* some handler found the store disconnected or failing
    joined,                \* socket -> <<activity, user>> pairs it joined with
    owed,                  \* <<activity, user>> of a disconnect not yet followed
                           \* by a presence broadcast without that user
    tagAdded,              \* <<activity, tag>> -> tag_added broadcasts so far
    handled,               \* tag event -> number of such events delivered
    approvals,             \* stored status changes pending -> approved so far
    pre,                   \* the tag as stored before a participant's votes
    ignored                \* the reasons for which handlers have returned at once

\* the history kept for the tag handlers
tagHist == <<tagAdded, handled, approvals, pre>>

\* the in-memory state of connections and presence
presence == <<connectionCount, connections, activities, operationsInProgress,
              open, rooms, joined, owed, ignored>>

vars == <<connectionCount, connections, activities, operationsInProgress,
          isMongoConnected, open, rooms, db, tasks, emitted, events, faults,
          joined, owed, tagAdded, handled, approvals, pre, ignored>>

(***************************************************************************)
(* Sequences used as insertion-ordered collections (a JS Set or array).    *)
(***************************************************************************)
Range(seq) == {seq[i] : i \in 1..Len(seq)}

SeqAdd(seq, x) == IF x \in Range(seq) THEN seq ELSE Append(seq, x)

SeqDelete(seq, x) == SelectSeq(seq, LAMBDA y : y # x)

RemoveAt(seq, i) == SubSeq(seq, 1, i - 1) \o SubSeq(seq, i + 1, Len(seq))

\* Array.prototype.findIndex over the indices whose element passes the test:
\* the first of them, 0 if there is none
FindIndex(matching) ==
    IF matching = {} THEN 0
    ELSE CHOOSE i \in matching : \A j \in matching : i <= j

\* a delete that removes nothing: a server using it does not satisfy C34
MapDeleteNothing(f, k) == f

MapDelete(f, k) == [x \in DOMAIN f \ {k} |-> f[x]]

MapSet(f, k, v) == [x \in DOMAIN f \cup {k} |-> IF x = k THEN v ELSE f[x]]

(***************************************************************************)
(* Messages.  to.mode is "socket" (socket.emit), "room" (io.to(room)),     *)
(* "roomExcept" (socket.to(room)), "all" (io.emit) or "allExcept"          *)
(* (socket.broadcast).                                                     *)
(***************************************************************************)
Msg(event, mode, room, sock, data) ==
    [event |-> event, to |-> [mode |-> mode, room |-> room, sock |-> sock],
     data |-> data]

\* function getActivityParticipants(activityId)
getActivityParticipants(table, activityId) ==
    IF activityId \notin DOMAIN table THEN {} ELSE table[activityId]

\* the participants_updated payload built from the Presence Table
ParticipantsPayload(ids) == {[id |-> id, isConnected |-> TRUE] : id \in ids}

\* io.to(activityId).emit('participants_updated', {activityId, participants})
ParticipantsUpdated(activityId, table) ==
    Msg("participants_updated", "room", activityId, Null,
        ParticipantsPayload(getActivityParticipants(table, activityId)))

\* the end of join_activity: the presence list is mapped to payload entries,
\* naming every id other than the joining one by id.substring(0, 6), which
\* throws on a missing id, outside every try block of the handler
JoinThrows(activityId, userId, table) ==
    \E id \in getActivityParticipants(table, activityId) :
       id = Null /\ id # userId

\* the handler then ends without emitting; otherwise it emits the list
JoinNotice(activityId, userId, table) ==
    IF JoinThrows(activityId, userId, table)
    THEN <<>>
    ELSE <<ParticipantsUpdated(activityId, table)>>

\* the end of leave_activity: every id is named by id.substring(0, 6); the
\* throw on a missing id is caught by the handler, which emits nothing
LeaveNotice(activityId, table) ==
    IF Null \in getActivityParticipants(table, activityId)
    THEN <<>>
    ELSE <<ParticipantsUpdated(activityId, table)>>

\* a removal that keeps an emptied entry: a server using it does not
\* satisfy C27
PresenceRemoveKeepEmpty(table, activityId, userId) ==
    IF activityId \notin DOMAIN table THEN table
    ELSE [table EXCEPT ![activityId] = @ \ {userId}]

\* activities.get(activityId).delete(userId), dropping an emptied entry
PresenceRemove(table, activityId, userId) ==
    IF activityId \notin DOMAIN table THEN table
    ELSE IF table[activityId] \ {userId} = {} THEN MapDelete(table, activityId)
    ELSE [table EXCEPT ![activityId] = @ \ {userId}]

\* if (!activities.has(activityId)) activities.set(...); activities.get(activityId).add(userId)
PresenceAdd(table, activityId, userId) ==
    IF activityId \in DOMAIN table
    THEN [table EXCEPT ![activityId] = @ \cup {userId}]
    ELSE MapSet(table, activityId, {userId})

\* findOne's null
NoDoc == [absent |-> TRUE]

\* the tag events counted in the history
TagEvents == {<<"add", a, g>> : a \in Activities, g \in TagIds}
                \cup {<<"vote", a, g, u>> :
                         a \in Activities, g \in TagIds, u \in Users}

NoPre == [act |-> Null, tag |-> Null, user |-> Null, len |-> 0, own |-> 0,
          status |-> Null, done |-> 0]

Found(doc) == "absent" \notin DOMAIN doc

(***************************************************************************)
(* Tasks: one record per handler suspended at a store call.                *)
(***************************************************************************)
Task(kind, pc, s, act, user, doc, aux) ==
    [kind |-> kind, pc |-> pc, sock |-> s, act |-> act, user |-> user,
     doc |-> doc, aux |-> aux]

TasksOf(s) == {i \in 1..Len(tasks) : tasks[i].sock = s}

Idle == tasks = <<>>

(***************************************************************************)
(* The initial state: the process has started, no socket has connected,    *)
(* the store holds the activities the REST surface created.                *)
(***************************************************************************)
\* settings.tagCreation as the schema defaults it, with minimumVotes 2
DefaultSettings == [enableVoting |-> TRUE, thresholdType |-> "minimum",
                    minimumVotes |-> 2, voteThreshold |-> 1]

\* an activity with one pending tag nobody has voted on yet
InitialDoc == [participants |-> <<>>,
               tags |-> <<[id |-> "T1", votes |-> <<>>, status |-> "pending"]>>,
               mappings |-> <<>>,
               phase |-> "gathering",
               v |-> 0,
               settings |-> DefaultSettings]

InitMemory ==
    /\ connectionCount = 0
    /\ connections = <<>>
    /\ activities = <<>>
    /\ operationsInProgress = {}
    /\ open = {}
    /\ rooms = [s \in Sockets |-> {}]
    /\ tasks = <<>>
    /\ emitted = <<>>
    /\ events = 0
    /\ faults = FALSE
    /\ joined = [s \in Sockets |-> {}]
    /\ owed = {}
    /\ tagAdded = [k \in Activities \X TagIds |-> 0]
    /\ handled = [e \in TagEvents |-> 0]
    /\ approvals = 0
    /\ pre = NoPre
    /\ ignored = {}

Init ==
    /\ InitMemory
    /\ isMongoConnected = FALSE
    /\ db = [a \in {"X"} |-> InitialDoc]

(***************************************************************************)
(* mongoose.connect(...).then / db.on('disconnected') / db.on('reconnected')*)
(***************************************************************************)
MongoConnected ==
    /\ ~isMongoConnected
    /\ isMongoConnected' = TRUE
    /\ emitted' = <<>>
    /\ UNCHANGED <<connectionCount, connections, activities,
                   operationsInProgress, open, rooms, db, tasks, events,
                   faults, joined, owed, tagHist, ignored>>

MongoDisconnected ==
    /\ isMongoConnected
    /\ isMongoConnected' = FALSE
    /\ emitted' = <<>>
    /\ UNCHANGED <<connectionCount, connections, activities,
                   operationsInProgress, open, rooms, db, tasks, events,
                   faults, joined, owed, tagHist, ignored>>

(***************************************************************************)
(* io.on('connection'): admission.                                         *)
(***************************************************************************)
\* a capacity test that is one connection late: a server using it
\* does not satisfy C2
AtCapacityLate == connectionCount > MAX_CONNECTIONS

\* no capacity test at all: a server using it does not satisfy C37
AtCapacityNever == FALSE

AtCapacity == connectionCount >= MAX_CONNECTIONS

\* a level that turns high one connection late: a server using it does
\* not satisfy C22
CapacityLevelLate(count) == IF count <= SOFT_LIMIT THEN "normal" ELSE "high"

\* capacityLevel: connectionCount < SOFT_LIMIT ? 'normal' : 'high'
CapacityLevel(count) == IF count < SOFT_LIMIT THEN "normal" ELSE "high"

Connect(s) ==
    /\ events < MaxEvents
    /\ s \notin open
    /\ s \notin DOMAIN connections
    /\ TasksOf(s) = {}
    /\ events' = events + 1
    /\ IF AtCapacity
       THEN \* connection_rejected, socket.disconnect(true), return: no handler
            \* is registered, so the close reaches no 'disconnect' listener
            /\ emitted' = <<Msg("connection_rejected", "socket", Null, s,
                                [reason |-> "capacity_full",
                                 currentConnections |-> connectionCount,
                                 maxConnections |-> MAX_CONNECTIONS])>>
            /\ UNCHANGED <<connectionCount, connections, open>>
       ELSE /\ connectionCount' = connectionCount + 1
            /\ connections' = MapSet(connections, s,
                                     [userId |-> Null, activityIds |-> <<>>])
            /\ open' = open \cup {s}
            /\ emitted' =
                 (IF connectionCount' >= SOFT_LIMIT
                  THEN <<Msg("capacity_warning", "socket", Null, s,
                             [currentConnections |-> connectionCount',
                              maxConnections |-> MAX_CONNECTIONS])>>
                  ELSE <<>>)
                 \o <<Msg("connection_accepted", "socket", Null, s,
                          [currentConnections |-> connectionCount',
                           maxConnections |-> MAX_CONNECTIONS,
                           capacityLevel |-> CapacityLevel(connectionCount')])>>
    /\ UNCHANGED <<activities, operationsInProgress, isMongoConnected, rooms,
                   db, tasks, faults, joined, owed, tagHist, ignored>>

(***************************************************************************)
(* History: a presence broadcast for X that lacks p (or reports it         *)
(* disconnected) settles what a disconnect owes for <<X, p>>.              *)
(***************************************************************************)
Settles(m, pair) ==
    /\ m.event = "participants_updated"
    /\ m.to.room = pair[1]
    /\ \A e \in m.data : e.id = pair[2] => ~e.isConnected

Settle(o, msgs) ==
    {pair \in o : ~\E k \in 1..Len(msgs) : Settles(msgs[k], pair)}

(***************************************************************************)
(* The store, as the handlers use it through Mongoose.                     *)
(*   findOne  returns the stored document (with its version __v) or null.  *)
(*   save     sends the changes made to the in-memory document: a push as  *)
(*            $push, an assignment as $set.  A change addressed through an *)
(*            array index carries the version the document was read at and *)
(*            fails with a VersionError when the stored version differs.   *)
(*   updateOne with "participants.$" changes the first matching element.   *)
(***************************************************************************)
FindOne(activityId) == IF activityId \in DOMAIN db THEN db[activityId] ELSE NoDoc

ParticipantIndex(doc, userId) ==
    FindIndex({k \in 1..Len(doc.participants) : doc.participants[k].id = userId})

\* Activity.updateOne({id, "participants.id": userId},
\*                    {$set: {"participants.$.isConnected": false}})
UpdateDisconnected(store, activityId, userId) ==
    IF activityId \notin DOMAIN store THEN store
    ELSE LET idx == ParticipantIndex(store[activityId], userId)
         IN  IF idx = 0 THEN store
             ELSE [store EXCEPT ![activityId].participants[idx].isConnected = FALSE]

\* what join_activity changes on the document it read (delta sent by save)
JoinDelta(doc, userId) ==
    LET idx == ParticipantIndex(doc, userId)
    IN  IF idx = 0 THEN [op |-> "push", idx |-> 0]
        ELSE IF doc.participants[idx].isConnected THEN [op |-> "none", idx |-> idx]
        ELSE [op |-> "set", idx |-> idx]

\* whether activity.save() of the join's delta succeeds against the store:
\* a pushed participant needs its id (required by the schema), a changed
\* element needs the version the document was read at
JoinSaveOk(t) ==
    /\ t.act \in DOMAIN db
    /\ t.aux.op = "push" => t.user # Null
    /\ t.aux.op = "set" => db[t.act].v = t.doc.v

JoinSaved(t) ==
    CASE t.aux.op = "push" ->
           [db EXCEPT ![t.act].participants =
                          Append(@, [id |-> t.user, isConnected |-> TRUE]),
                      ![t.act].v = @ + 1]
      [] t.aux.op = "set" ->
           [db EXCEPT ![t.act].participants[t.aux.idx].isConnected = TRUE]
      [] OTHER -> db

(***************************************************************************)
(* socket.on('join_activity')                                              *)
(***************************************************************************)
\* a duplicate check that never finds anything: a server using it does
\* not satisfy C13
AlreadyJoinedNever(s, activityId) == FALSE

\* if (connection && connection.activityIds.has(activityId)) return
AlreadyJoined(s, activityId) ==
    s \in DOMAIN connections /\ activityId \in Range(connections[s].activityIds)

JoinStart(s, activityId, userId) ==
    /\ events < MaxEvents
    /\ s \in open
    /\ events' = events + 1
    /\ IF AlreadyJoined(s, activityId)
       THEN \* "already in activity, skipping join"
            /\ emitted' = <<>>
            /\ ignored' = ignored \cup {"join_duplicate"}
            /\ UNCHANGED <<connections, activities, rooms, tasks, faults,
                           joined, owed>>
       ELSE /\ UNCHANGED ignored
            /\ connections' =
                 IF s \in DOMAIN connections
                 THEN [connections EXCEPT
                         ![s].userId = userId,
                         ![s].activityIds = SeqAdd(@, activityId)]
                 ELSE connections
            /\ activities' = PresenceAdd(activities, activityId, userId)
            /\ rooms' = [rooms EXCEPT ![s] = @ \cup {activityId}]
            /\ joined' = [joined EXCEPT ![s] = @ \cup {<<activityId, userId>>}]
            /\ IF isMongoConnected
               THEN \* suspended at Activity.findOne
                    /\ Len(tasks) < MaxTasks
                    /\ tasks' = Append(tasks, Task("join", "findOne", s,
                                                   activityId, userId, NoDoc, NoDoc))
                    /\ emitted' = <<>>
                    /\ UNCHANGED <<faults, owed>>
               ELSE \* safeDbOperation returns the fallback at once
                    /\ emitted' = JoinNotice(activityId, userId, activities')
                    /\ owed' = Settle(owed, emitted')
                    /\ faults' = TRUE
                    /\ UNCHANGED tasks
    /\ UNCHANGED <<connectionCount, operationsInProgress, isMongoConnected,
                   open, db, tagHist>>

\* the handler's end: the broadcast of the current presence list
JoinFinish(i) ==
    /\ emitted' = JoinNotice(tasks[i].act, tasks[i].user, activities)
    /\ owed' = Settle(owed, emitted')
    /\ tasks' = RemoveAt(tasks, i)

JoinFindOne(i) ==
    /\ i \in 1..Len(tasks)
    /\ tasks[i].kind = "join" /\ tasks[i].pc = "findOne"
    /\ \E ok \in BOOLEAN :
         LET doc == FindOne(tasks[i].act)
         IN  IF ~ok
             THEN /\ faults' = TRUE
                  /\ JoinFinish(i)
             ELSE IF ~Found(doc)
             THEN /\ UNCHANGED faults
                  /\ JoinFinish(i)
             ELSE \* suspended at activity.save()
                  /\ tasks' = [tasks EXCEPT ![i].pc = "save", ![i].doc = doc,
                                   ![i].aux = JoinDelta(doc, tasks[i].user)]
                  /\ emitted' = <<>>
                  /\ UNCHANGED <<faults, owed>>
    /\ UNCHANGED <<connectionCount, connections, activities,
                   operationsInProgress, isMongoConnected, open, rooms, db,
                   events, joined, tagHist, ignored>>

JoinSave(i) ==
    /\ i \in 1..Len(tasks)
    /\ tasks[i].kind = "join" /\ tasks[i].pc = "save"
    /\ \E ok \in BOOLEAN :
         IF ~ok
         THEN /\ faults' = TRUE
              /\ UNCHANGED db
         ELSE /\ db' = IF JoinSaveOk(tasks[i]) THEN JoinSaved(tasks[i]) ELSE db
              /\ UNCHANGED faults
    /\ JoinFinish(i)
    /\ UNCHANGED <<connectionCount, connections, activities,
                   operationsInProgress, isMongoConnected, open, rooms,
                   events, joined, tagHist, ignored>>

(***************************************************************************)
(* socket.on('leave_activity')                                             *)
(***************************************************************************)
LeaveKey(activityId, userId) == <<"leave", activityId, userId>>

\* a finally block that forgets the key: a server using it does not
\* satisfy C19
EndOperationKept(key) == operationsInProgress

\* finally { operationsInProgress.delete(operationKey) }
EndOperation(key) == operationsInProgress \ {key}

InPresence(activityId, userId) ==
    activityId \in DOMAIN activities /\ userId \in activities[activityId]

LeaveStart(s, activityId, userId) ==
    /\ events < MaxEvents
    /\ s \in open
    /\ events' = events + 1
    /\ IF userId = Null \/ activityId = Null
       THEN \* "leave_activity called without required parameters"
            /\ emitted' = <<>>
            /\ UNCHANGED <<connections, activities, operationsInProgress,
                           rooms, tasks, faults, joined, owed>>
       ELSE IF LeaveKey(activityId, userId) \in operationsInProgress
       THEN /\ emitted' = <<>>
            /\ UNCHANGED <<connections, activities, operationsInProgress,
                           rooms, tasks, faults, joined, owed>>
       ELSE /\ connections' =
                 IF s \in DOMAIN connections
                 THEN [connections EXCEPT
                         ![s].activityIds = SeqDelete(@, activityId)]
                 ELSE connections
            /\ joined' = [joined EXCEPT
                            ![s] = {pr \in @ : pr[1] # activityId}]
            /\ IF InPresence(activityId, userId)
               THEN /\ activities' = PresenceRemove(activities, activityId, userId)
                    /\ rooms' = [rooms EXCEPT ![s] = @ \ {activityId}]
                    /\ IF isMongoConnected
                       THEN \* suspended at Activity.updateOne, key held
                            /\ Len(tasks) < MaxTasks
                            /\ tasks' = Append(tasks,
                                   Task("leave", "updateOne", s, activityId,
                                        userId, NoDoc, NoDoc))
                            /\ operationsInProgress' = operationsInProgress
                                   \cup {LeaveKey(activityId, userId)}
                            /\ emitted' = <<>>
                            /\ UNCHANGED <<faults, owed>>
                       ELSE /\ emitted' = LeaveNotice(activityId, activities')
                            /\ owed' = Settle(owed, emitted')
                            /\ faults' = TRUE
                            /\ UNCHANGED <<tasks, operationsInProgress>>
               ELSE /\ emitted' = <<>>
                    /\ UNCHANGED <<activities, rooms, tasks, faults, owed,
                                   operationsInProgress>>
    /\ UNCHANGED <<connectionCount, isMongoConnected, open, db, tagHist, ignored>>

LeaveUpdateOne(i) ==
    /\ i \in 1..Len(tasks)
    /\ tasks[i].kind = "leave" /\ tasks[i].pc = "updateOne"
    /\ \E ok \in BOOLEAN :
         IF ok
         THEN /\ db' = UpdateDisconnected(db, tasks[i].act, tasks[i].user)
              /\ UNCHANGED faults
         ELSE /\ faults' = TRUE
              /\ UNCHANGED db
    /\ emitted' = LeaveNotice(tasks[i].act, activities)
    /\ owed' = Settle(owed, emitted')
    /\ operationsInProgress' = EndOperation(LeaveKey(tasks[i].act, tasks[i].user))
    /\ tasks' = RemoveAt(tasks, i)
    /\ UNCHANGED <<connectionCount, connections, activities,
                   isMongoConnected, open, rooms, events, joined, tagHist, ignored>>

(***************************************************************************)
(* socket.on('disconnect')                                                 *)
(***************************************************************************)
RECURSIVE RemoveFromAll(_, _, _)
RemoveFromAll(table, ids, userId) ==
    IF ids = <<>> THEN table
    ELSE RemoveFromAll(PresenceRemove(table, Head(ids), userId), Tail(ids), userId)

DisconnectStart(s) ==
    /\ events < MaxEvents
    /\ s \in open
    /\ events' = events + 1
    /\ connectionCount' = connectionCount - 1
    /\ open' = open \ {s}
    /\ rooms' = [rooms EXCEPT ![s] = {}]
    /\ joined' = [joined EXCEPT ![s] = {}]
    /\ owed' = owed \cup joined[s]
    /\ emitted' = <<>>
    /\ IF s \in DOMAIN connections /\ connections[s].userId # Null
          /\ connections[s].activityIds # <<>>
       THEN LET userId == connections[s].userId
                ids == connections[s].activityIds
            IN  IF isMongoConnected
                THEN \* first activity removed, suspended at Activity.updateOne
                     /\ Len(tasks) < MaxTasks
                     /\ activities' = PresenceRemove(activities, Head(ids), userId)
                     /\ tasks' = Append(tasks,
                            Task("disconnect", "updateOne", s, Head(ids),
                                 userId, NoDoc, Tail(ids)))
                     /\ UNCHANGED <<connections, faults>>
                ELSE /\ activities' = RemoveFromAll(activities, ids, userId)
                     /\ connections' = MapDelete(connections, s)
                     /\ faults' = TRUE
                     /\ UNCHANGED tasks
       ELSE /\ connections' = MapDelete(connections, s)
            /\ UNCHANGED <<activities, tasks, faults>>
    /\ UNCHANGED <<operationsInProgress, isMongoConnected, db, tagHist, ignored>>

DisconnectUpdateOne(i) ==
    /\ i \in 1..Len(tasks)
    /\ tasks[i].kind = "disconnect" /\ tasks[i].pc = "updateOne"
    /\ \E ok \in BOOLEAN :
         IF ok
         THEN /\ db' = UpdateDisconnected(db, tasks[i].act, tasks[i].user)
              /\ IF tasks[i].aux # <<>> /\ ~isMongoConnected
                 THEN faults' = TRUE ELSE UNCHANGED faults
         ELSE /\ faults' = TRUE
              /\ UNCHANGED db
    /\ LET rest == tasks[i].aux
           userId == tasks[i].user
       IN  IF rest = <<>>
           THEN /\ connections' = MapDelete(connections, tasks[i].sock)
                /\ tasks' = RemoveAt(tasks, i)
                /\ UNCHANGED activities
           ELSE IF isMongoConnected
           THEN \* next activity removed, suspended at its updateOne
                /\ activities' = PresenceRemove(activities, Head(rest), userId)
                /\ tasks' = [tasks EXCEPT ![i].act = Head(rest),
                                          ![i].aux = Tail(rest)]
                /\ UNCHANGED connections
           ELSE /\ activities' = RemoveFromAll(activities, rest, userId)
                /\ connections' = MapDelete(connections, tasks[i].sock)
                /\ tasks' = RemoveAt(tasks, i)
    /\ emitted' = <<>>
    /\ UNCHANGED <<connectionCount, operationsInProgress, isMongoConnected,
                   open, rooms, events, joined, owed, tagHist, ignored>>

(***************************************************************************)
(* setInterval(..., STALE_CONNECTION_CLEANUP_INTERVAL): records whose      *)
(* socket is gone are dropped together with their presence entries.        *)
(***************************************************************************)
\* a sweep that drops the records only: a server using it does not
\* satisfy C30
SweepPresenceNone(table, stale) == table

RECURSIVE SweepPresence(_, _)
SweepPresence(table, stale) ==
    IF stale = {} THEN table
    ELSE LET s == CHOOSE x \in stale : TRUE
             c == connections[s]
         IN  SweepPresence(IF c.userId # Null
                           THEN RemoveFromAll(table, c.activityIds, c.userId)
                           ELSE table,
                           stale \ {s})

StaleSweep ==
    /\ LET stale == DOMAIN connections \ open
       IN  /\ connections' = [s \in DOMAIN connections \ stale |-> connections[s]]
           /\ activities' = SweepPresence(activities, stale)
    /\ emitted' = <<>>
    /\ UNCHANGED <<connectionCount, operationsInProgress, isMongoConnected,
                   open, rooms, db, tasks, events, faults, joined, owed, tagHist, ignored>>

(***************************************************************************)
(* Tags and votes of a stored activity.                                    *)
(***************************************************************************)
TagIndex(doc, tagId) ==
    FindIndex({k \in 1..Len(doc.tags) : doc.tags[k].id = tagId})

VoteIndex(tag, userId) ==
    FindIndex({k \in 1..Len(tag.votes) : tag.votes[k] = userId})

\* tagCreationSettings.thresholdType || 'minimum'
ThresholdType(settings) ==
    IF settings.thresholdType = Null THEN "minimum" ELSE settings.thresholdType

\* tagCreationSettings.minimumVotes || tagCreationSettings.voteThreshold || 1
\* (0 stands for a number that is unset or zero: both are falsy)
MinimumVotes(settings) ==
    IF settings.minimumVotes # 0 THEN settings.minimumVotes
    ELSE IF settings.voteThreshold # 0 THEN settings.voteThreshold
    ELSE 1

\* a threshold rule that approves one vote late: a server using it
\* does not satisfy C5
VoteStatusLate(settings, status, len) ==
    IF settings.enableVoting /\ ThresholdType(settings) = "minimum"
    THEN IF status = "pending" /\ len > MinimumVotes(settings) THEN "approved"
         ELSE IF status = "approved" /\ len < MinimumVotes(settings) THEN "pending"
         ELSE status
    ELSE status

\* the status recomputation of vote_tag, on the vote count after the toggle
VoteStatus(settings, status, len) ==
    IF settings.enableVoting /\ ThresholdType(settings) = "minimum"
    THEN IF status = "pending" /\ len >= MinimumVotes(settings) THEN "approved"
         ELSE IF status = "approved" /\ len < MinimumVotes(settings) THEN "pending"
         ELSE status
    ELSE status

\* a toggle that never retracts: a server using it does not satisfy
\* C4
ToggleVoteAppendOnly(votes, userId) == Append(votes, userId)

\* the toggle: splice the participant's vote out, or push it
ToggleVote(votes, userId) ==
    LET vi == FindIndex({k \in 1..Len(votes) : votes[k] = userId})
    IN  IF vi # 0 THEN RemoveAt(votes, vi) ELSE Append(votes, userId)

\* what vote_tag changes on the document it read
VoteDelta(doc, tagId, userId) ==
    LET ti == TagIndex(doc, tagId)
        tag == doc.tags[ti]
        votes == ToggleVote(tag.votes, userId)
    IN  [tag |-> tagId, ti |-> ti,
         op |-> IF VoteIndex(tag, userId) # 0 THEN "splice" ELSE "push",
         votes |-> votes,
         status |-> VoteStatus(doc.settings, tag.status, Len(votes)),
         was |-> tag.status]

\* activity.save() of a vote: the change goes through tags.<ti>, so it
\* carries the version read and increments it
VoteSaveOk(t) == t.act \in DOMAIN db /\ db[t.act].v = t.doc.v

VoteSaved(t) ==
    [db EXCEPT
       ![t.act].tags[t.aux.ti].votes =
           IF t.aux.op = "push" THEN Append(@, t.user) ELSE t.aux.votes,
       ![t.act].tags[t.aux.ti].status =
           IF t.aux.status # t.aux.was THEN t.aux.status ELSE @,
       ![t.act].v = @ + 1]

\* the tag add_tag pushes: the client's tag with the server's status
NewTag(doc, tagId, votes) ==
    [id |-> tagId, votes |-> votes,
     status |-> IF doc.settings.enableVoting THEN "pending" ELSE "approved"]

\* activity.save() of an added tag: $push on tags, version incremented
AddTagSaveOk(t) == t.act \in DOMAIN db

AddTagSaved(t) ==
    [db EXCEPT ![t.act].tags = Append(@, t.aux), ![t.act].v = @ + 1]

StoredTag(activityId, tagId) ==
    db[activityId].tags[TagIndex(db[activityId], tagId)]

HasTag(activityId, tagId) ==
    activityId \in DOMAIN db /\ TagIndex(db[activityId], tagId) # 0

CountEvent(e) == [handled EXCEPT ![e] = @ + 1]

(***************************************************************************)
(* socket.on('add_tag')                                                    *)
(***************************************************************************)
\* socket.to(data.activityId).emit('tag_added', data)
AddTagBroadcast(s, activityId, tagId) ==
    /\ emitted' = <<Msg("tag_added", "roomExcept", activityId, s,
                        [tagId |-> tagId])>>
    /\ tagAdded' = [tagAdded EXCEPT ![<<activityId, tagId>>] = @ + 1]

AddTagStart(s, activityId, tagId, votes) ==
    /\ events < MaxTagEvents
    /\ s \in open
    /\ events' = events + 1
    /\ handled' = CountEvent(<<"add", activityId, tagId>>)
    /\ pre' = NoPre
    /\ IF isMongoConnected
       THEN \* suspended at Activity.findOne
            /\ Len(tasks) < MaxTasks
            /\ tasks' = Append(tasks, Task("add_tag", "findOne", s, activityId,
                                           Null, NoDoc,
                                           [id |-> tagId, votes |-> votes]))
            /\ emitted' = <<>>
            /\ UNCHANGED <<faults, tagAdded>>
       ELSE /\ AddTagBroadcast(s, activityId, tagId)
            /\ faults' = TRUE
            /\ UNCHANGED tasks
    /\ UNCHANGED <<presence, isMongoConnected, db, approvals>>

AddTagFindOne(i) ==
    /\ i \in 1..Len(tasks)
    /\ tasks[i].kind = "add_tag" /\ tasks[i].pc = "findOne"
    /\ \E ok \in BOOLEAN :
         LET doc == FindOne(tasks[i].act)
             tagId == tasks[i].aux.id
         IN  IF ~ok
             THEN /\ faults' = TRUE
                  /\ AddTagBroadcast(tasks[i].sock, tasks[i].act, tagId)
                  /\ tasks' = RemoveAt(tasks, i)
             ELSE IF ~Found(doc) \/ TagIndex(doc, tagId) # 0
             THEN \* "not found" or "already exists, skipping": the return
                  \* leaves the store operation, not the handler
                  /\ AddTagBroadcast(tasks[i].sock, tasks[i].act, tagId)
                  /\ tasks' = RemoveAt(tasks, i)
                  /\ UNCHANGED faults
             ELSE \* suspended at activity.save()
                  /\ tasks' = [tasks EXCEPT
                                 ![i].pc = "save", ![i].doc = doc,
                                 ![i].aux = NewTag(doc, tagId, tasks[i].aux.votes)]
                  /\ emitted' = <<>>
                  /\ UNCHANGED <<faults, tagAdded>>
    /\ UNCHANGED <<presence, isMongoConnected, db, events, handled,
                   approvals, pre>>

AddTagSave(i) ==
    /\ i \in 1..Len(tasks)
    /\ tasks[i].kind = "add_tag" /\ tasks[i].pc = "save"
    /\ \E ok \in BOOLEAN :
         IF ~ok
         THEN /\ faults' = TRUE
              /\ UNCHANGED db
         ELSE /\ db' = IF AddTagSaveOk(tasks[i]) THEN AddTagSaved(tasks[i]) ELSE db
              /\ UNCHANGED faults
    /\ AddTagBroadcast(tasks[i].sock, tasks[i].act, tasks[i].aux.id)
    /\ tasks' = RemoveAt(tasks, i)
    /\ UNCHANGED <<presence, isMongoConnected, events, handled, approvals, pre>>

(***************************************************************************)
(* socket.on('vote_tag')                                                   *)
(***************************************************************************)
\* the stored tag as a participant's first of two votes finds it
Baseline(activityId, tagId, userId) ==
    IF tasks = <<>> /\ pre.act = activityId /\ pre.tag = tagId
       /\ pre.user = userId /\ pre.done = 1
    THEN pre
    ELSE IF tasks = <<>> /\ HasTag(activityId, tagId)
    THEN [act |-> activityId, tag |-> tagId, user |-> userId,
          len |-> Len(StoredTag(activityId, tagId).votes),
          own |-> Cardinality({k \in 1..Len(StoredTag(activityId, tagId).votes) :
                                 StoredTag(activityId, tagId).votes[k] = userId}),
          status |-> StoredTag(activityId, tagId).status, done |-> 0]
    ELSE NoPre

\* socket.to(data.activityId).emit('tag_voted', data), the handler's end
VoteFinish(i) ==
    /\ emitted' = <<Msg("tag_voted", "roomExcept", tasks[i].act, tasks[i].sock,
                        [tagId |-> tasks[i].aux.tag, userId |-> tasks[i].user])>>
    /\ tasks' = RemoveAt(tasks, i)

VoteStart(s, activityId, tagId, userId) ==
    /\ events < MaxTagEvents
    /\ s \in open
    /\ events' = events + 1
    /\ handled' = CountEvent(<<"vote", activityId, tagId, userId>>)
    /\ IF isMongoConnected
       THEN \* suspended at Activity.findOne
            /\ Len(tasks) < MaxTasks
            /\ tasks' = Append(tasks, Task("vote", "findOne", s, activityId,
                                           userId, NoDoc, [tag |-> tagId]))
            /\ pre' = Baseline(activityId, tagId, userId)
            /\ emitted' = <<>>
            /\ UNCHANGED faults
       ELSE /\ emitted' = <<Msg("tag_voted", "roomExcept", activityId, s,
                                [tagId |-> tagId, userId |-> userId])>>
            /\ pre' = NoPre
            /\ faults' = TRUE
            /\ UNCHANGED tasks
    /\ UNCHANGED <<presence, isMongoConnected, db, tagAdded, approvals>>

VoteFindOne(i) ==
    /\ i \in 1..Len(tasks)
    /\ tasks[i].kind = "vote" /\ tasks[i].pc = "findOne"
    /\ \E ok \in BOOLEAN :
         LET doc == FindOne(tasks[i].act)
         IN  IF ~ok
             THEN /\ faults' = TRUE
                  /\ pre' = NoPre
                  /\ VoteFinish(i)
             ELSE IF ~Found(doc) \/ TagIndex(doc, tasks[i].aux.tag) = 0
             THEN /\ pre' = NoPre
                  /\ VoteFinish(i)
                  /\ UNCHANGED faults
             ELSE \* suspended at activity.save()
                  /\ tasks' = [tasks EXCEPT
                                 ![i].pc = "save", ![i].doc = doc,
                                 ![i].aux = VoteDelta(doc, tasks[i].aux.tag,
                                                      tasks[i].user)]
                  /\ emitted' = <<>>
                  /\ UNCHANGED <<faults, pre>>
    /\ UNCHANGED <<presence, isMongoConnected, db, events, tagAdded, handled,
                   approvals>>

VoteSave(i) ==
    /\ i \in 1..Len(tasks)
    /\ tasks[i].kind = "vote" /\ tasks[i].pc = "save"
    /\ \E ok \in BOOLEAN :
         IF ok /\ VoteSaveOk(tasks[i])
         THEN /\ db' = VoteSaved(tasks[i])
              /\ approvals' =
                   IF /\ db[tasks[i].act].tags[tasks[i].aux.ti].status = "pending"
                      /\ db'[tasks[i].act].tags[tasks[i].aux.ti].status = "approved"
                   THEN approvals + 1 ELSE approvals
              /\ pre' = IF pre.user = tasks[i].user /\ pre.tag = tasks[i].aux.tag
                           /\ pre.act = tasks[i].act
                        THEN [pre EXCEPT !.done = @ + 1] ELSE NoPre
              /\ UNCHANGED faults
         ELSE /\ faults' = IF ok THEN faults ELSE TRUE
              /\ pre' = NoPre
              /\ UNCHANGED <<db, approvals>>
    /\ VoteFinish(i)
    /\ UNCHANGED <<presence, isMongoConnected, events, tagAdded, handled>>

(***************************************************************************)
(* socket.on('delete_activity')                                            *)
(***************************************************************************)
\* a deletion notice sent to the activity's room only: a server using it
\* does not satisfy C15
DeletedNoticeToRoom(activityId) ==
    Msg("activity_deleted", "room", activityId, Null, [activityId |-> activityId])

\* io.emit('activity_deleted', { activityId })
DeletedNotice(activityId) ==
    Msg("activity_deleted", "all", Null, Null, [activityId |-> activityId])

DeleteStart(s, activityId) ==
    /\ events < MaxEvents
    /\ s \in open
    /\ events' = events + 1
    /\ IF isMongoConnected
       THEN \* suspended at Activity.deleteOne
            /\ Len(tasks) < MaxTasks
            /\ tasks' = Append(tasks, Task("delete", "deleteOne", s, activityId,
                                           Null, NoDoc, NoDoc))
            /\ emitted' = <<>>
            /\ UNCHANGED faults
       ELSE /\ emitted' = <<DeletedNotice(activityId)>>
            /\ faults' = TRUE
            /\ UNCHANGED tasks
    /\ UNCHANGED <<presence, isMongoConnected, db, tagHist>>

DeleteDeleteOne(i) ==
    /\ i \in 1..Len(tasks)
    /\ tasks[i].kind = "delete" /\ tasks[i].pc = "deleteOne"
    /\ \E ok \in BOOLEAN :
         IF ok
         THEN /\ db' = IF tasks[i].act \in DOMAIN db
                       THEN MapDelete(db, tasks[i].act) ELSE db
              /\ UNCHANGED faults
         ELSE /\ faults' = TRUE
              /\ UNCHANGED db
    /\ emitted' = <<DeletedNotice(tasks[i].act)>>
    /\ tasks' = RemoveAt(tasks, i)
    /\ UNCHANGED <<presence, isMongoConnected, events, tagHist>>

(***************************************************************************)
(* socket.on('delete_tag'), socket.on('update_mapping') and                *)
(* socket.on('change_phase'): read the activity, change it, save it, then  *)
(* tell the others in the room.                                            *)
(***************************************************************************)
\* a broadcast through io.to(room), which reaches the sender too: a server
\* using it does not satisfy C16
ToRoom(event, s, activityId, data) ==
    Msg(event, "room", activityId, s, data)

\* socket.to(data.activityId).emit(event, data)
ToOthers(event, s, activityId, data) ==
    Msg(event, "roomExcept", activityId, s, data)

\* the first step of such a handler: suspended at Activity.findOne, or, the
\* store being disconnected, straight to the broadcast
EditStart(kind, event, s, activityId, userId, data) ==
    /\ events < MaxEvents
    /\ s \in open
    /\ events' = events + 1
    /\ IF isMongoConnected
       THEN /\ Len(tasks) < MaxTasks
            /\ tasks' = Append(tasks, Task(kind, "findOne", s, activityId,
                                           userId, NoDoc, data))
            /\ emitted' = <<>>
            /\ UNCHANGED faults
       ELSE /\ emitted' = <<ToOthers(event, s, activityId, data)>>
            /\ faults' = TRUE
            /\ UNCHANGED tasks
    /\ UNCHANGED <<presence, isMongoConnected, db, tagHist>>

\* a handler that broadcasts inside its if (activity) branch only, so that a
\* missing activity or a failed read ends it in silence: a server using it
\* does not satisfy C39
EditFindOneQuiet(kind, event, i) ==
    /\ i \in 1..Len(tasks)
    /\ tasks[i].kind = kind /\ tasks[i].pc = "findOne"
    /\ \E ok \in BOOLEAN :
         LET doc == FindOne(tasks[i].act)
         IN  IF ok /\ Found(doc)
             THEN /\ tasks' = [tasks EXCEPT ![i].pc = "save", ![i].doc = doc]
                  /\ emitted' = <<>>
                  /\ UNCHANGED faults
             ELSE /\ faults' = IF ok THEN faults ELSE TRUE
                  /\ emitted' = <<>>
                  /\ tasks' = RemoveAt(tasks, i)
    /\ UNCHANGED <<presence, isMongoConnected, db, events, tagHist>>

\* Activity.findOne of such a handler: null (or a failure) ends it with the
\* broadcast, a document suspends it at activity.save()
EditFindOne(kind, event, i) ==
    /\ i \in 1..Len(tasks)
    /\ tasks[i].kind = kind /\ tasks[i].pc = "findOne"
    /\ \E ok \in BOOLEAN :
         LET doc == FindOne(tasks[i].act)
         IN  IF ok /\ Found(doc)
             THEN /\ tasks' = [tasks EXCEPT ![i].pc = "save", ![i].doc = doc]
                  /\ emitted' = <<>>
                  /\ UNCHANGED faults
             ELSE /\ faults' = IF ok THEN faults ELSE TRUE
                  /\ emitted' = <<ToOthers(event, tasks[i].sock, tasks[i].act,
                                           tasks[i].aux)>>
                  /\ tasks' = RemoveAt(tasks, i)
    /\ UNCHANGED <<presence, isMongoConnected, db, events, tagHist>>

\* activity.save() of such a handler, storing Saved when the store accepts
\* it (Accepted), then the broadcast
EditSave(kind, event, i, Accepted, Saved) ==
    /\ i \in 1..Len(tasks)
    /\ tasks[i].kind = kind /\ tasks[i].pc = "save"
    /\ \E ok \in BOOLEAN :
         IF ~ok
         THEN /\ faults' = TRUE
              /\ UNCHANGED db
         ELSE /\ db' = IF Accepted THEN Saved ELSE db
              /\ UNCHANGED faults
    /\ emitted' = <<ToOthers(event, tasks[i].sock, tasks[i].act, tasks[i].aux)>>
    /\ tasks' = RemoveAt(tasks, i)
    /\ UNCHANGED <<presence, isMongoConnected, events, tagHist>>

\* activity.tags.filter(t => t.id !== data.tagId)
WithoutTag(tags, tagId) == SelectSeq(tags, LAMBDA g : g.id # tagId)

\* the save of delete_tag: an assigned tags array is sent whole, with the
\* version it was read at; an assignment that changes nothing sends none
DeleteTagSaveOk(t) ==
    /\ t.act \in DOMAIN db
    /\ WithoutTag(t.doc.tags, t.aux.tagId) # t.doc.tags => db[t.act].v = t.doc.v

DeleteTagSaved(t) ==
    IF WithoutTag(t.doc.tags, t.aux.tagId) = t.doc.tags THEN db
    ELSE [db EXCEPT ![t.act].tags = WithoutTag(t.doc.tags, t.aux.tagId),
                    ![t.act].v = @ + 1]

DeleteTagStart(s, activityId, tagId) ==
    EditStart("delete_tag", "tag_deleted", s, activityId, Null, [tagId |-> tagId])

DeleteTagFindOne(i) == EditFindOne("delete_tag", "tag_deleted", i)

DeleteTagSave(i) ==
    EditSave("delete_tag", "tag_deleted", i,
             DeleteTagSaveOk(tasks[i]), DeleteTagSaved(tasks[i]))

\* activitySchema.phase enum, in the order of the activity's course
Phases == <<"gathering", "tagging", "mapping", "mapping-results", "ranking",
            "results">>

PhaseRank(p) == FindIndex({k \in 1..Len(Phases) : Phases[k] = p})

\* a save that refuses to go back to an earlier phase: a server using it
\* does not satisfy C21
PhaseSavedForwardOnly(t) ==
    IF PhaseRank(t.aux.phase) < PhaseRank(db[t.act].phase) THEN db
    ELSE [db EXCEPT ![t.act].phase = t.aux.phase]

\* activity.phase = data.phase: a plain $set, no version involved
PhaseSaveOk(t) == t.act \in DOMAIN db

PhaseSaved(t) == [db EXCEPT ![t.act].phase = t.aux.phase]

PhaseStart(s, activityId, phase) ==
    EditStart("change_phase", "phase_changed", s, activityId, Null,
              [phase |-> phase])

PhaseFindOne(i) == EditFindOne("change_phase", "phase_changed", i)

PhaseSave(i) ==
    EditSave("change_phase", "phase_changed", i,
             PhaseSaveOk(tasks[i]), PhaseSaved(tasks[i]))

(***************************************************************************)
(* socket.on('update_mapping')                                             *)
(***************************************************************************)
\* the position lists clients submit, and data.isComplete: true, false or
\* undefined
PositionLists == {"p1", "p2"}

CompleteFlags == {"true", "false", Null}

\* activity.mappings.findIndex(m => m.userId === data.userId)
MappingIndex(doc, userId) ==
    FindIndex({k \in 1..Len(doc.mappings) : doc.mappings[k].userId = userId})

\* the entry update_mapping pushes for a user without one
NewMapping(userId, data) ==
    [userId |-> userId, positions |-> data.positions,
     isComplete |-> (data.isComplete = "true")]

\* an update that takes a missing flag for false: a server using it does
\* not satisfy C32
UpdatedMappingInferred(mapping, data) ==
    [mapping EXCEPT !.positions = data.positions,
                    !.isComplete = (data.isComplete = "true")]

\* the entry as update_mapping leaves it for a user who has one
UpdatedMapping(mapping, data) ==
    [mapping EXCEPT
       !.positions = data.positions,
       !.isComplete = IF data.isComplete # Null
                      THEN data.isComplete = "true" ELSE @]

\* the save of update_mapping: a pushed entry goes as $push and needs its
\* userId; a changed entry is addressed by its index and carries the version
\* the document was read at
MappingSaveOk(t) ==
    /\ t.act \in DOMAIN db
    /\ LET idx == MappingIndex(t.doc, t.user)
       IN  IF idx = 0 THEN t.user # Null
           ELSE UpdatedMapping(t.doc.mappings[idx], t.aux) # t.doc.mappings[idx]
                   => db[t.act].v = t.doc.v

MappingSaved(t) ==
    LET idx == MappingIndex(t.doc, t.user)
    IN  IF idx = 0
        THEN [db EXCEPT ![t.act].mappings = Append(@, NewMapping(t.user, t.aux)),
                        ![t.act].v = @ + 1]
        ELSE \* only the fields the handler changed on the entry it read
             \* are sent, and they are set on the stored entry
             LET read == t.doc.mappings[idx]
                 upd == UpdatedMapping(read, t.aux)
             IN  [db EXCEPT
                    ![t.act].mappings[idx] =
                        [@ EXCEPT
                           !.positions = IF upd.positions # read.positions
                                         THEN upd.positions ELSE @,
                           !.isComplete = IF upd.isComplete # read.isComplete
                                          THEN upd.isComplete ELSE @],
                    ![t.act].v = IF upd.positions # read.positions
                                 THEN @ + 1 ELSE @]

MappingStart(s, activityId, userId, positions, isComplete) ==
    EditStart("update_mapping", "mapping_updated", s, activityId, userId,
              [userId |-> userId, positions |-> positions,
               isComplete |-> isComplete])

MappingFindOne(i) == EditFindOne("update_mapping", "mapping_updated", i)

MappingSave(i) ==
    EditSave("update_mapping", "mapping_updated", i,
             MappingSaveOk(tasks[i]), MappingSaved(tasks[i]))

Next ==
    \/ MongoConnected
    \/ MongoDisconnected
    \/ \E s \in Sockets : Connect(s)
    \/ \E s \in Sockets, a \in Activities, u \in Users : JoinStart(s, a, u)
    \/ \E i \in 1..MaxTasks : JoinFindOne(i)
    \/ \E i \in 1..MaxTasks : JoinSave(i)
    \/ \E s \in Sockets, a \in Activities, u \in Users : LeaveStart(s, a, u)
    \/ \E i \in 1..MaxTasks : LeaveUpdateOne(i)
    \/ \E s \in Sockets : DisconnectStart(s)
    \/ \E i \in 1..MaxTasks : DisconnectUpdateOne(i)
    \/ StaleSweep

Spec == Init /\ [][Next]_vars

(***************************************************************************)
(* Fairness: a handler suspended at the store is resumed (every store call *)
(* completes or times out) and the interval timer keeps firing.  Clients   *)
(* are not obliged to send anything.                                       *)
(***************************************************************************)
Fairness ==
    /\ \A i \in 1..MaxTasks :
          /\ WF_vars(JoinFindOne(i))
          /\ WF_vars(JoinSave(i))
          /\ WF_vars(LeaveUpdateOne(i))
          /\ WF_vars(DisconnectUpdateOne(i))
    /\ WF_vars(StaleSweep)

SpecLive == Init /\ [][Next]_vars /\ Fairness

(***************************************************************************)
(* Tag traffic of two admitted connections, the store connected at first.  *)
(***************************************************************************)
ClientVotes == {<<>>, <<"A">>, <<"A", "A">>}

InitAdmitted(S) ==
    /\ connectionCount = Cardinality(S)
    /\ connections = [s \in S |-> [userId |-> Null, activityIds |-> <<>>]]
    /\ activities = <<>>
    /\ operationsInProgress = {}
    /\ open = S
    /\ rooms = [s \in Sockets |-> {}]
    /\ tasks = <<>>
    /\ emitted = <<>>
    /\ events = 0
    /\ faults = FALSE
    /\ joined = [s \in Sockets |-> {}]
    /\ owed = {}
    /\ tagAdded = [k \in Activities \X TagIds |-> 0]
    /\ handled = [e \in TagEvents |-> 0]
    /\ approvals = 0
    /\ pre = NoPre
    /\ ignored = {}
    /\ isMongoConnected = TRUE

InitTags ==
    /\ InitAdmitted({"s1", "s2"})
    /\ db = [a \in {"X"} |-> InitialDoc]

NextTags ==
    \/ MongoConnected
    \/ MongoDisconnected
    \/ \E s \in Sockets, a \in Activities, g \in TagIds, votes \in ClientVotes :
          AddTagStart(s, a, g, votes)
    \/ \E i \in 1..MaxTasks : AddTagFindOne(i)
    \/ \E i \in 1..MaxTasks : AddTagSave(i)
    \/ \E s \in Sockets, a \in Activities, g \in TagIds, u \in Users :
          VoteStart(s, a, g, u)
    \/ \E i \in 1..MaxTasks : VoteFindOne(i)
    \/ \E i \in 1..MaxTasks : VoteSave(i)

SpecTags == InitTags /\ [][NextTags]_vars

(***************************************************************************)
(* One connection voting, one event at a time, on a stored tag in any      *)
(* status, with any vote list and any voting settings.                     *)
(***************************************************************************)
MaxVotes == 2

VoteListsOf(n) == UNION {[1..k -> Users] : k \in 0..n}

SettingsSpace ==
    [enableVoting : BOOLEAN,
     thresholdType : {"minimum", "topN", "off", Null},
     minimumVotes : 0..2,
     voteThreshold : 0..2]

InitVote ==
    /\ InitAdmitted({"s1"})
    /\ \E status \in {"pending", "approved", "rejected"},
          votes \in VoteListsOf(MaxVotes), settings \in SettingsSpace :
          db = [a \in {"X"} |->
                  [participants |-> <<>>,
                   tags |-> <<[id |-> "T1", votes |-> votes, status |-> status]>>,
                   mappings |-> <<>>,
                   phase |-> "gathering",
                   v |-> 0, settings |-> settings]]

NextVote ==
    \/ \E u \in Users : tasks = <<>> /\ VoteStart("s1", "X", "T1", u)
    \/ VoteFindOne(1)
    \/ VoteSave(1)

SpecVote == InitVote /\ [][NextVote]_vars

(***************************************************************************)
(* Claims about presence and admission.                                    *)
(***************************************************************************)
\* the participants with a registered connection claiming the activity
Claimants(registry, activityId) ==
    {p \in Users : \E s \in DOMAIN registry :
        /\ registry[s].userId = p
        /\ activityId \in Range(registry[s].activityIds)}

PresenceMatches(table, registry) ==
    \A a \in Activities :
        getActivityParticipants(table, a) = Claimants(registry, a)

\* C1: every join_activity or leave_activity event keeps, for every activity,
\* the Presence Table entry equal to the set of participants that some
\* registered connection claims for that activity.  Stated for the events
\* of connections that use one participant id throughout and leave only
\* what they joined, several connections of the same participant included.
C1_PresenceEqualsClaimants ==
    [][(/\ PresenceMatches(activities, connections)
        /\ \E s \in DOMAIN connections, a \in Activities, u \in Users :
              \/ /\ connections[s].userId \in {Null, u}
                 /\ JoinStart(s, a, u)
              \/ /\ connections[s].userId = u
                 /\ a \in Range(connections[s].activityIds)
                 /\ LeaveStart(s, a, u))
       => PresenceMatches(activities', connections')]_vars

\* C2: a connect attempt at capacity is rejected with the structured reason,
\* changes neither connectionCount, the registry nor the presence table,
\* registers no handler, and connectionCount only ever decreases through the
\* disconnect of a socket whose handlers were registered.
C2_RejectedAtCapacity ==
    [][/\ \A s \in Sockets :
            (Connect(s) /\ connectionCount >= MAX_CONNECTIONS) =>
               /\ emitted' = <<[event |-> "connection_rejected",
                                to |-> [mode |-> "socket", room |-> Null,
                                        sock |-> s],
                                data |-> [reason |-> "capacity_full",
                                          currentConnections |-> connectionCount,
                                          maxConnections |-> MAX_CONNECTIONS]]>>
               /\ connectionCount' = connectionCount
               /\ connections' = connections
               /\ activities' = activities
               /\ rooms' = rooms
               /\ tasks' = tasks
               /\ s \notin open'
       /\ connectionCount' < connectionCount =>
            \E s \in open : open' = open \ {s}]_vars

C2_Witness ==
    /\ connectionCount = MAX_CONNECTIONS
    /\ Len(emitted) = 1
    /\ emitted[1].event = "connection_rejected"
    /\ emitted[1].to.sock \notin open

\* the broadcast a join owes: the presence entry at the moment of emission
JoinBroadcast(activityId, table) ==
    [event |-> "participants_updated",
     to |-> [mode |-> "room", room |-> activityId, sock |-> Null],
     data |-> {[id |-> p, isConnected |-> TRUE] :
                 p \in IF activityId \in DOMAIN table
                       THEN table[activityId] ELSE {}}]

\* C7: a join that is not skipped emits participants_updated to the room
\* exactly once, at its end, listing exactly the presence entry of that
\* moment with isConnected true; it emits nothing before.  (It holds of
\* Spec, where every event carries its userId; it does not hold once an
\* earlier join_activity without userId has put a missing id into the
\* presence entry.)
C7_JoinBroadcastsPresence ==
    [][/\ \A s \in Sockets, a \in Activities, u \in Users :
            (JoinStart(s, a, u) /\ ~AlreadyJoined(s, a)) =>
               IF tasks' = tasks
               THEN emitted' = <<JoinBroadcast(a, activities')>>
               ELSE emitted' = <<>>
       /\ \A i \in 1..Len(tasks) :
            (tasks[i].kind = "join" /\ (JoinFindOne(i) \/ JoinSave(i))) =>
               IF Len(tasks') < Len(tasks)
               THEN emitted' = <<JoinBroadcast(tasks[i].act, activities')>>
               ELSE emitted' = <<>> /\ tasks'[i].pc = "save"]_vars

\* C8: after a connection that joined X as A disconnects, a presence
\* broadcast for X without A (or with A not connected) is eventually emitted.
C8_DisconnectBroadcasts ==
    \A a \in Activities, u \in Users :
        (<<a, u>> \in owed) ~> (<<a, u>> \notin owed)

\* C9: with the store available throughout and no handler in flight, the
\* durable isConnected flag of every stored participant equals its
\* membership in the Presence Table.
C9_DurableFlagMatchesPresence ==
    (tasks = <<>> /\ ~faults) =>
        \A a \in DOMAIN db : \A k \in 1..Len(db[a].participants) :
            db[a].participants[k].isConnected
                <=> InPresence(a, db[a].participants[k].id)

(***************************************************************************)
(* Tags and votes: C3, C4, C5, C6, C10.                                    *)
(***************************************************************************)
TagCount(activityId, tagId) ==
    Cardinality({k \in 1..Len(db[activityId].tags) :
                   db[activityId].tags[k].id = tagId})

AddTagInFlight(activityId, tagId) ==
    \E i \in 1..Len(tasks) :
        /\ tasks[i].kind = "add_tag"
        /\ tasks[i].act = activityId
        /\ tasks[i].aux.id = tagId

\* C3: once two add_tag events carrying the same tag id for the same stored
\* activity have been handled, with the store available throughout, the
\* stored activity holds exactly one tag with that id and at most one
\* tag_added broadcast has been emitted for it.
C3_AddTagIdempotent ==
    \A a \in DOMAIN db, g \in TagIds :
        (/\ handled[<<"add", a, g>>] = 2
         /\ ~AddTagInFlight(a, g)
         /\ ~faults)
        => (TagCount(a, g) = 1 /\ tagAdded[<<a, g>>] <= 1)

VoteSettings == db["X"].settings

\* the first stored tag of X, the one the votes of SpecVote are about
VotedTag == db["X"].tags[1]

\* C4: after two consecutive vote_tag events from the same participant on
\* the same tag, no other event in between, the tag's vote count and status
\* are those from before the two events, whatever the tag's status, vote
\* list and voting settings were.
C4_VoteRoundTrip ==
    (pre.done = 2 /\ tasks = <<>>) =>
        /\ Len(StoredTag(pre.act, pre.tag).votes) = pre.len
        /\ StoredTag(pre.act, pre.tag).status = pre.status

\* C4 as amended: when both votes are stored, the vote count afterwards is
\* the count before if the participant had at most one vote in the list,
\* and two less if the participant had several; the status is restored
\* when the participant had at most one vote in the list and the status
\* before was the one the threshold rule gives for the vote list before.
C4_VoteRoundTripSettled ==
    (pre.done = 2 /\ tasks = <<>>) =>
        /\ Len(StoredTag(pre.act, pre.tag).votes) =
              IF pre.own <= 1 THEN pre.len ELSE pre.len - 2
        /\ (pre.own <= 1
            /\ (pre.status = "pending" =>
                  ~(/\ db[pre.act].settings.enableVoting
                    /\ db[pre.act].settings.thresholdType \in {"minimum", Null}
                    /\ pre.len >= MinimumVotes(db[pre.act].settings)))
            /\ (pre.status = "approved" =>
                  ~(/\ db[pre.act].settings.enableVoting
                    /\ db[pre.act].settings.thresholdType \in {"minimum", Null}
                    /\ pre.len < MinimumVotes(db[pre.act].settings))))
           => StoredTag(pre.act, pre.tag).status = pre.status

\* B's vote was there; A voted the pending tag to approved and back
C4_Witness ==
    /\ pre.done = 2
    /\ tasks = <<>>
    /\ pre.user = "A"
    /\ pre.own = 0
    /\ pre.status = "pending"
    /\ approvals = 1
    /\ VotedTag.status = "pending"
    /\ VotedTag.votes = <<"B">>

\* C5: with voting enabled and threshold type minimum, after every vote_tag
\* event (read here as: every one whose vote was stored) the tag is approved
\* exactly when its vote count has reached minimumVotes.
C5_ApprovedIffThreshold ==
    [][\A i \in 1..Len(tasks) :
          (/\ tasks[i].kind = "vote"
           /\ VoteSave(i)
           /\ db' # db
           /\ db[tasks[i].act].settings.enableVoting
           /\ db[tasks[i].act].settings.thresholdType = "minimum")
          => LET tag == db'[tasks[i].act].tags[tasks[i].aux.ti]
             IN  tag.status = "approved"
                   <=> Len(tag.votes) >= db[tasks[i].act].settings.minimumVotes]_vars

\* C5 as amended: with voting enabled and threshold type minimum (set or
\* defaulted), after every vote_tag event whose vote was stored on a tag
\* that was not rejected, the tag is approved exactly when its vote count
\* has reached minimumVotes, or voteThreshold where minimumVotes is unset
\* or zero, or 1 where both are.
C5_ApprovedIffEffectiveThreshold ==
    [][\A i \in 1..Len(tasks) :
          (/\ tasks[i].kind = "vote"
           /\ VoteSave(i)
           /\ db' # db
           /\ db[tasks[i].act].tags[tasks[i].aux.ti].status # "rejected"
           /\ db[tasks[i].act].settings.enableVoting
           /\ db[tasks[i].act].settings.thresholdType \in {"minimum", Null})
          => LET tag == db'[tasks[i].act].tags[tasks[i].aux.ti]
                 settings == db[tasks[i].act].settings
                 threshold == IF settings.minimumVotes # 0
                              THEN settings.minimumVotes
                              ELSE IF settings.voteThreshold # 0
                              THEN settings.voteThreshold ELSE 1
             IN  tag.status = "approved" <=> Len(tag.votes) >= threshold]_vars

\* a stored vote has just taken a pending tag to approved under the
\* voteThreshold fallback
C5_Witness ==
    /\ tasks = <<>>
    /\ Len(emitted) = 1 /\ emitted[1].event = "tag_voted"
    /\ approvals = 1
    /\ VoteSettings.enableVoting
    /\ VoteSettings.thresholdType = "minimum"
    /\ VoteSettings.minimumVotes = 0
    /\ VoteSettings.voteThreshold = 2
    /\ VotedTag.status = "approved"
    /\ Len(VotedTag.votes) = 2

OnlyTheTwoVotes ==
    \A e \in TagEvents :
        handled[e] = IF e \in {<<"vote", "X", "T1", "A">>,
                               <<"vote", "X", "T1", "B">>} THEN 1 ELSE 0

\* C6: minimumVotes is 2 and the tag is pending without votes; once one
\* vote_tag from A and one from B have been handled, in whatever order
\* their steps ran and with the store available throughout, the tag holds
\* both votes, is approved, and went from pending to approved exactly once.
C6_TwoVotersApprove ==
    (OnlyTheTwoVotes /\ tasks = <<>> /\ ~faults) =>
        /\ Len(StoredTag("X", "T1").votes) = 2
        /\ Range(StoredTag("X", "T1").votes) = {"A", "B"}
        /\ StoredTag("X", "T1").status = "approved"
        /\ approvals = 1

\* C10: no stored tag's vote list holds two votes of the same participant.
C10_OneVotePerParticipant ==
    \A a \in DOMAIN db : \A k \in 1..Len(db[a].tags) :
        \A m, n \in 1..Len(db[a].tags[k].votes) :
            db[a].tags[k].votes[m] = db[a].tags[k].votes[n] => m = n

(***************************************************************************)
(* Participants, presence and several connections of one participant:      *)
(* C11, C12, C14.                                                          *)
(***************************************************************************)
\* C11: no stored activity's participant list holds two entries with the
\* same id, whatever join_activity events arrived and however their store
\* steps interleaved.
C11_ParticipantIdsUnique ==
    \A a \in DOMAIN db :
        \A m, n \in 1..Len(db[a].participants) :
            db[a].participants[m].id = db[a].participants[n].id => m = n

\* C12: every participant id in the Presence Table entry of an activity is
\* the userId of a registered connection whose activityIds holds that
\* activity.
C12_PresenceWithinClaims ==
    \A a \in DOMAIN activities :
        activities[a] \subseteq Claimants(connections, a)

\* connection s is registered as participant u and has joined activity a
ClaimsAs(s, a, u) ==
    /\ s \in open
    /\ s \in DOMAIN connections
    /\ connections[s].userId = u
    /\ a \in Range(connections[s].activityIds)

\* C14: while another registered connection of participant P has joined X,
\* a leave_activity or disconnect of one connection of P that joined X
\* leaves P in the Presence Table entry of X when it completes, and its
\* store update does not set P's durable isConnected flag in X to false.
C14_OtherConnectionKeepsPresence ==
    [][/\ \A s \in Sockets, a \in Activities, u \in Users :
            (/\ ~isMongoConnected
             /\ ClaimsAs(s, a, u)
             /\ \E s2 \in Sockets \ {s} : ClaimsAs(s2, a, u)
             /\ LeaveStart(s, a, u) \/ DisconnectStart(s))
            => (a \in DOMAIN activities' /\ u \in activities'[a])
       /\ \A i \in 1..Len(tasks) :
            (/\ tasks[i].kind \in {"leave", "disconnect"}
             /\ tasks[i].act \in DOMAIN db
             /\ LeaveUpdateOne(i) \/ DisconnectUpdateOne(i)
             /\ \E s2 \in Sockets \ {tasks[i].sock} :
                   ClaimsAs(s2, tasks[i].act, tasks[i].user))
            => \A k \in 1..Len(db[tasks[i].act].participants) :
                  (/\ db[tasks[i].act].participants[k].id = tasks[i].user
                   /\ db[tasks[i].act].participants[k].isConnected)
                  => db'[tasks[i].act].participants[k].isConnected]_vars


(***************************************************************************)
(* Events with missing fields, from two admitted connections.              *)
(***************************************************************************)
InitMalformed ==
    /\ InitAdmitted({"s1", "s2"})
    /\ db = [a \in {"X"} |-> InitialDoc]

NextMalformed ==
    \/ MongoConnected
    \/ MongoDisconnected
    \/ \E s \in Sockets, a \in {"X", Null}, u \in {"A", Null} : JoinStart(s, a, u)
    \/ \E i \in 1..MaxTasks : JoinFindOne(i)
    \/ \E i \in 1..MaxTasks : JoinSave(i)
    \/ \E s \in Sockets, a \in {"X", Null}, u \in {"A", Null} : LeaveStart(s, a, u)
    \/ \E i \in 1..MaxTasks : LeaveUpdateOne(i)

SpecMalformed == InitMalformed /\ [][NextMalformed]_vars

\* C13: a join_activity on a connection whose record already holds the
\* activityId changes neither the registry (the bound userId included), the
\* Presence Table, the room subscriptions nor the store, starts no store
\* call and emits nothing, whatever userId it carries.
C13_DuplicateJoinIsNoOp ==
    [][\A s \in Sockets, a \in Activities, u \in Users :
          (/\ JoinStart(s, a, u)
           /\ s \in DOMAIN connections
           /\ a \in Range(connections[s].activityIds)) =>
             /\ connections' = connections
             /\ activities' = activities
             /\ rooms' = rooms
             /\ db' = db
             /\ tasks' = tasks
             /\ emitted' = <<>>]_vars

\* a connection registered as A in X has had a second join skipped
C13_Witness ==
    /\ "join_duplicate" \in ignored
    /\ \E s \in open :
          /\ connections[s].userId = "A"
          /\ connections[s].activityIds = <<"X">>
          /\ rooms[s] = {"X"}
    /\ activities = [a \in {"X"} |-> {"A"}]
    /\ emitted = <<>>
    /\ events = 3

\* C17: a join_activity or leave_activity whose userId or activityId is
\* missing changes neither the registry, the Presence Table, the room
\* subscriptions nor the store, and emits nothing.
C17_MissingFieldsIgnored ==
    [][\A s \in Sockets, a \in Activities \cup {Null}, u \in Users \cup {Null} :
          (/\ a = Null \/ u = Null
           /\ JoinStart(s, a, u) \/ LeaveStart(s, a, u)) =>
             /\ connections' = connections
             /\ activities' = activities
             /\ rooms' = rooms
             /\ db' = db
             /\ emitted' = <<>>]_vars


(***************************************************************************)
(* Mapping submissions from two admitted connections.                      *)
(***************************************************************************)
MaxMappingEvents == 3

InitMappings ==
    /\ InitAdmitted({"s1", "s2"})
    /\ db = [a \in {"X"} |-> InitialDoc]

NextMappings ==
    \/ MongoConnected
    \/ MongoDisconnected
    \/ \E s \in Sockets, a \in Activities, u \in Users,
          positions \in PositionLists, isComplete \in CompleteFlags :
          events < MaxMappingEvents /\ MappingStart(s, a, u, positions, isComplete)
    \/ \E i \in 1..MaxTasks : MappingFindOne(i)
    \/ \E i \in 1..MaxTasks : MappingSave(i)

SpecMappings == InitMappings /\ [][NextMappings]_vars

\* C20: no stored activity's mappings list ever holds two entries with the
\* same userId, and when an update_mapping for a user who has an entry
\* completes, the store having taken its save, that entry's positions are
\* the event's positions.
C20_OneMappingPerUser ==
    [][/\ \A a \in DOMAIN db' :
            \A m, n \in 1..Len(db'[a].mappings) :
               db'[a].mappings[m].userId = db'[a].mappings[n].userId => m = n
       /\ \A i \in 1..Len(tasks) :
            (/\ tasks[i].kind = "update_mapping"
             /\ MappingSave(i)
             /\ ~faults'
             /\ tasks[i].act \in DOMAIN db'
             /\ MappingIndex(tasks[i].doc, tasks[i].user) # 0)
            => \E k \in 1..Len(db'[tasks[i].act].mappings) :
                  /\ db'[tasks[i].act].mappings[k].userId = tasks[i].user
                  /\ db'[tasks[i].act].mappings[k].positions
                        = tasks[i].aux.positions]_vars


(***************************************************************************)
(* Edits of a stored activity by two connections that have joined it:      *)
(* s1 as A and s2 as B are in room X, the store is connected.              *)
(***************************************************************************)
MaxEdits == 2

\* who a message is delivered to (socket.io): the socket, the room, the room
\* without the sender, everyone, or everyone but the sender
Recipients(m) ==
    CASE m.to.mode = "socket" -> {m.to.sock} \cap open
      [] m.to.mode = "room" -> {s \in open : m.to.room \in rooms[s]}
      [] m.to.mode = "roomExcept" ->
           {s \in open : m.to.room \in rooms[s]} \ {m.to.sock}
      [] m.to.mode = "all" -> open
      [] m.to.mode = "allExcept" -> open \ {m.to.sock}

InitJoined ==
    /\ connectionCount = 2
    /\ connections = [s \in {"s1", "s2"} |->
                        [userId |-> IF s = "s1" THEN "A" ELSE "B",
                         activityIds |-> <<"X">>]]
    /\ activities = [a \in {"X"} |-> {"A", "B"}]
    /\ operationsInProgress = {}
    /\ open = {"s1", "s2"}
    /\ rooms = [s \in Sockets |-> IF s \in {"s1", "s2"} THEN {"X"} ELSE {}]
    /\ tasks = <<>>
    /\ emitted = <<>>
    /\ events = 0
    /\ faults = FALSE
    /\ joined = [s \in Sockets |->
                   CASE s = "s1" -> {<<"X", "A">>}
                     [] s = "s2" -> {<<"X", "B">>}
                     [] OTHER -> {}]
    /\ owed = {}
    /\ tagAdded = [k \in Activities \X TagIds |-> 0]
    /\ handled = [e \in TagEvents |-> 0]
    /\ approvals = 0
    /\ pre = NoPre
    /\ ignored = {}
    /\ isMongoConnected = TRUE
    /\ db = [a \in {"X"} |->
               [InitialDoc EXCEPT
                  !.participants = <<[id |-> "A", isConnected |-> TRUE],
                                     [id |-> "B", isConnected |-> TRUE]>>,
                  !.v = 2]]

NextEdits ==
    \/ MongoConnected
    \/ MongoDisconnected
    \/ \E s \in Sockets, a \in Activities : events < MaxEdits /\ DeleteStart(s, a)
    \/ \E i \in 1..MaxTasks : DeleteDeleteOne(i)
    \/ \E s \in Sockets, g \in TagIds :
          events < MaxEdits /\ DeleteTagStart(s, "X", g)
    \/ \E i \in 1..MaxTasks : DeleteTagFindOne(i)
    \/ \E i \in 1..MaxTasks : DeleteTagSave(i)
    \/ \E s \in Sockets : events < MaxEdits /\ PhaseStart(s, "X", "mapping")
    \/ \E i \in 1..MaxTasks : PhaseFindOne(i)
    \/ \E i \in 1..MaxTasks : PhaseSave(i)
    \/ \E s \in Sockets :
          events < MaxEdits /\ MappingStart(s, "X", "A", "p1", Null)
    \/ \E i \in 1..MaxTasks : MappingFindOne(i)
    \/ \E i \in 1..MaxTasks : MappingSave(i)
    \/ \E s \in Sockets, g \in TagIds :
          events < MaxEdits /\ AddTagStart(s, "X", g, <<>>)
    \/ \E i \in 1..MaxTasks : AddTagFindOne(i)
    \/ \E i \in 1..MaxTasks : AddTagSave(i)
    \/ \E s \in Sockets : events < MaxEdits /\ VoteStart(s, "X", "T1", "A")
    \/ \E i \in 1..MaxTasks : VoteFindOne(i)
    \/ \E i \in 1..MaxTasks : VoteSave(i)
    \/ \E s \in Sockets : events < MaxEdits /\ DisconnectStart(s)
    \/ \E i \in 1..MaxTasks : DisconnectUpdateOne(i)

SpecEdits == InitJoined /\ [][NextEdits]_vars


\* the notice C15 asks for: activity_deleted{activityId} to every connection
DeletionToAll(activityId) ==
    [event |-> "activity_deleted",
     to |-> [mode |-> "all", room |-> Null, sock |-> Null],
     data |-> [activityId |-> activityId]]

\* C15: every delete_activity event carrying an activityId leads to exactly
\* one activity_deleted{activityId}, emitted to all connections when the
\* handler ends: at once when the store is disconnected, after the
\* delete call otherwise, whether that call deleted the activity, found
\* none or failed; and nothing else emits activity_deleted.
C15_DeletionAlwaysBroadcast ==
    [][/\ \A s \in Sockets, a \in Activities :
            DeleteStart(s, a) =>
               IF isMongoConnected
               THEN /\ emitted' = <<>>
                    /\ Len(tasks') = Len(tasks) + 1
                    /\ tasks'[Len(tasks')].kind = "delete"
                    /\ tasks'[Len(tasks')].act = a
               ELSE /\ emitted' = <<DeletionToAll(a)>>
                    /\ Recipients(emitted'[1]) = open
                    /\ tasks' = tasks
       /\ \A i \in 1..Len(tasks) :
            (tasks[i].kind = "delete" /\ DeleteDeleteOne(i)) =>
               /\ emitted' = <<DeletionToAll(tasks[i].act)>>
               /\ Recipients(emitted'[1]) = open
               /\ tasks' = RemoveAt(tasks, i)
       /\ (\E k \in 1..Len(emitted') : emitted'[k].event = "activity_deleted") =>
            \/ \E s \in Sockets, a \in Activities : DeleteStart(s, a)
            \/ \E i \in 1..Len(tasks) : DeleteDeleteOne(i)]_vars

\* the store has deleted X and everyone, in the room or not, is told
C15_Witness ==
    /\ tasks = <<>>
    /\ ~faults
    /\ "X" \notin DOMAIN db
    /\ emitted = <<DeletionToAll("X")>>
    /\ Recipients(emitted[1]) = {"s1", "s2"}

EditBroadcasts ==
    {"tag_added", "tag_voted", "tag_deleted", "mapping_updated", "phase_changed"}

\* the handler of task i ends in this step
Finishes(i) ==
    /\ i \in 1..Len(tasks)
    /\ tasks' = RemoveAt(tasks, i)
    /\ \/ AddTagFindOne(i) \/ AddTagSave(i)
       \/ VoteFindOne(i) \/ VoteSave(i)
       \/ DeleteTagFindOne(i) \/ DeleteTagSave(i)
       \/ MappingFindOne(i) \/ MappingSave(i)
       \/ PhaseFindOne(i) \/ PhaseSave(i)

MaxOldEvents == 4

MAX_RETRY_ATTEMPTS == 3

\* the size above which the one-minute timer clears operationsInProgress
StaleOperations == 100

\* setInterval(..., CONNECTIONS_CLEANUP_INTERVAL): operationsInProgress.clear()
CleanupOperations ==
    /\ operationsInProgress' = {}
    /\ emitted' = <<>>
    /\ UNCHANGED <<connectionCount, connections, activities, isMongoConnected,
                   open, rooms, db, tasks, events, faults, joined, owed,
                   tagHist, ignored>>

\* setInterval(..., 60000): clear above 100 keys, drop records of closed sockets
CleanupConnections ==
    /\ operationsInProgress' =
         IF Cardinality(operationsInProgress) > StaleOperations
         THEN {} ELSE operationsInProgress
    /\ connections' = [s \in DOMAIN connections \cap open |-> connections[s]]
    /\ emitted' = <<>>
    /\ UNCHANGED <<connectionCount, activities, isMongoConnected, open, rooms,
                   db, tasks, events, faults, joined, owed, tagHist, ignored>>

\* io.to(activityId).emit('participants_updated', ...) at the end of the
\* previous join_activity: Array.from(activities.get(activityId)) throws when
\* the entry was dropped meanwhile, and nothing is emitted
OldJoinNotice(activityId, table) ==
    IF activityId \in DOMAIN table
    THEN <<ParticipantsUpdated(activityId, table)>>
    ELSE <<>>

\* socket.on('join_activity') up to await Activity.findOne
OldJoinStart(s, activityId, userId) ==
    /\ events < MaxOldEvents
    /\ s \in open
    /\ events' = events + 1
    /\ IF AlreadyJoined(s, activityId)
       THEN /\ emitted' = <<>>
            /\ UNCHANGED <<connections, activities, rooms, tasks, joined>>
       ELSE /\ Len(tasks) < MaxTasks
            /\ connections' =
                 IF s \in DOMAIN connections
                 THEN [connections EXCEPT
                         ![s].userId = userId,
                         ![s].activityIds = SeqAdd(@, activityId)]
                 ELSE connections
            /\ joined' = [joined EXCEPT ![s] = @ \cup {<<activityId, userId>>}]
            /\ activities' = PresenceAdd(activities, activityId, userId)
            /\ rooms' = [rooms EXCEPT ![s] = @ \cup {activityId}]
            /\ tasks' = Append(tasks, Task("oldjoin", "findOne", s, activityId,
                                           userId, NoDoc, NoDoc))
            /\ emitted' = <<>>
    /\ UNCHANGED <<connectionCount, operationsInProgress, isMongoConnected,
                   open, db, faults, owed, tagHist, ignored>>

\* Activity.findOne settles: the document is changed and saved, or (no
\* document, or the call threw) the handler goes on to its broadcast
OldJoinFindOne(i) ==
    /\ i \in 1..Len(tasks)
    /\ tasks[i].kind = "oldjoin" /\ tasks[i].pc = "findOne"
    /\ \E ok \in BOOLEAN :
         LET doc == IF ok THEN FindOne(tasks[i].act) ELSE NoDoc
         IN  IF Found(doc)
             THEN /\ tasks' = [tasks EXCEPT
                                 ![i].pc = "save", ![i].doc = doc,
                                 ![i].aux = JoinDelta(doc, tasks[i].user)]
                  /\ emitted' = <<>>
                  /\ UNCHANGED <<faults, owed>>
             ELSE /\ tasks' = RemoveAt(tasks, i)
                  /\ emitted' = OldJoinNotice(tasks[i].act, activities)
                  /\ owed' = Settle(owed, emitted')
                  /\ faults' = (faults \/ ~ok)
    /\ UNCHANGED <<connectionCount, connections, activities,
                   operationsInProgress, isMongoConnected, open, rooms, db,
                   events, joined, tagHist, ignored>>

\* activity.save() settles; its error is caught; then the broadcast
OldJoinSave(i) ==
    /\ i \in 1..Len(tasks)
    /\ tasks[i].kind = "oldjoin" /\ tasks[i].pc = "save"
    /\ \E ok \in BOOLEAN :
         IF ok /\ JoinSaveOk(tasks[i])
         THEN /\ db' = JoinSaved(tasks[i])
              /\ UNCHANGED faults
         ELSE /\ faults' = (faults \/ ~ok)
              /\ UNCHANGED db
    /\ tasks' = RemoveAt(tasks, i)
    /\ emitted' = OldJoinNotice(tasks[i].act, activities)
    /\ owed' = Settle(owed, emitted')
    /\ UNCHANGED <<connectionCount, connections, activities,
                   operationsInProgress, isMongoConnected, open, rooms,
                   events, joined, tagHist, ignored>>

\* socket.on('leave_activity') up to the first await Promise.race([updateOne, ...])
OldLeaveStart(s, activityId, userId) ==
    /\ events < MaxOldEvents
    /\ s \in open
    /\ events' = events + 1
    /\ emitted' = <<>>
    /\ IF userId = Null \/ activityId = Null
       THEN UNCHANGED <<connections, activities, operationsInProgress, rooms,
                        tasks, joined>>
       ELSE IF LeaveKey(activityId, userId) \in operationsInProgress
       THEN UNCHANGED <<connections, activities, operationsInProgress, rooms,
                        tasks, joined>>
       ELSE /\ connections' =
                 IF s \in DOMAIN connections
                 THEN [connections EXCEPT
                         ![s].activityIds = SeqDelete(@, activityId)]
                 ELSE connections
            /\ joined' = [joined EXCEPT
                            ![s] = {pr \in @ : pr[1] # activityId}]
            /\ IF InPresence(activityId, userId)
               THEN /\ Len(tasks) < MaxTasks
                    /\ activities' = PresenceRemove(activities, activityId, userId)
                    /\ rooms' = [rooms EXCEPT ![s] = @ \ {activityId}]
                    /\ operationsInProgress' = operationsInProgress
                           \cup {LeaveKey(activityId, userId)}
                    /\ tasks' = Append(tasks,
                           Task("oldleave", "updateOne", s, activityId, userId,
                                NoDoc, [retryCount |-> 0]))
               ELSE \* the key is added and deleted again before the handler ends
                    UNCHANGED <<activities, rooms, operationsInProgress, tasks>>
    /\ UNCHANGED <<connectionCount, isMongoConnected, open, db, faults, owed,
                   tagHist, ignored>>

\* a loop test that allows one attempt more: a server using it does not
\* satisfy C28
RetryAgainOnceMore(retryCount) == retryCount <= MAX_RETRY_ATTEMPTS

\* while (retryCount < MAX_RETRY_ATTEMPTS && !updateSuccessful), after a
\* failed attempt
RetryAgain(retryCount) == retryCount < MAX_RETRY_ATTEMPTS

\* the race settles: the update answered ("ok"), failed ("error"), or the
\* five-second timer won while the update still reaches the store ("timeout")
OldLeaveUpdateOne(i) ==
    /\ i \in 1..Len(tasks)
    /\ tasks[i].kind = "oldleave" /\ tasks[i].pc = "updateOne"
    /\ \E outcome \in {"ok", "error", "timeout"} :
         /\ db' = IF outcome = "error" THEN db
                  ELSE UpdateDisconnected(db, tasks[i].act, tasks[i].user)
         /\ faults' = (faults \/ outcome # "ok")
         /\ tasks' =
              IF outcome = "ok"
              THEN [tasks EXCEPT ![i].pc = "findOne"]
              ELSE IF RetryAgain(tasks[i].aux.retryCount + 1)
              THEN [tasks EXCEPT ![i].pc = "backoff",
                                 ![i].aux.retryCount = @ + 1]
              ELSE [tasks EXCEPT ![i].pc = "findOne",
                                 ![i].aux.retryCount = @ + 1]
    /\ emitted' = <<>>
    /\ UNCHANGED <<connectionCount, connections, activities,
                   operationsInProgress, isMongoConnected, open, rooms,
                   events, joined, owed, tagHist, ignored>>

\* await new Promise(resolve => setTimeout(resolve, 2 ** retryCount * 1000))
OldLeaveBackoff(i) ==
    /\ i \in 1..Len(tasks)
    /\ tasks[i].kind = "oldleave" /\ tasks[i].pc = "backoff"
    /\ tasks' = [tasks EXCEPT ![i].pc = "updateOne"]
    /\ emitted' = <<>>
    /\ UNCHANGED <<connectionCount, connections, activities,
                   operationsInProgress, isMongoConnected, open, rooms, db,
                   events, faults, joined, owed, tagHist, ignored>>

\* the stored participants, each connected iff its id is in the presence entry
FullParticipantsList(doc, table, activityId) ==
    {[id |-> doc.participants[k].id,
      isConnected |-> doc.participants[k].id
                         \in getActivityParticipants(table, activityId)] :
        k \in 1..Len(doc.participants)}

\* Activity.findOne(...).lean() settles: the broadcast when the activity is
\* stored, then finally { operationsInProgress.delete(operationKey) }
OldLeaveFindOne(i) ==
    /\ i \in 1..Len(tasks)
    /\ tasks[i].kind = "oldleave" /\ tasks[i].pc = "findOne"
    /\ \E ok \in BOOLEAN :
         LET doc == IF ok THEN FindOne(tasks[i].act) ELSE NoDoc
         IN  /\ emitted' =
                  IF Found(doc)
                  THEN <<Msg("participants_updated", "room", tasks[i].act, Null,
                             FullParticipantsList(doc, activities, tasks[i].act))>>
                  ELSE <<>>
             /\ faults' = (faults \/ ~ok)
    /\ owed' = Settle(owed, emitted')
    /\ operationsInProgress' = EndOperation(LeaveKey(tasks[i].act, tasks[i].user))
    /\ tasks' = RemoveAt(tasks, i)
    /\ UNCHANGED <<connectionCount, connections, activities, isMongoConnected,
                   open, rooms, db, events, joined, tagHist, ignored>>

\* socket.on('disconnect') of the previous server: every joined activity is
\* handled by its own async function, all started in the handler's first
\* step; one whose key is in operationsInProgress returns at once
DisconnectKey(activityId, userId) == <<"disconnect", activityId, userId>>

RECURSIVE OldDisconnectFanOut(_, _, _)
OldDisconnectFanOut(st, ids, userId) ==
    IF ids = <<>> THEN st
    ELSE IF DisconnectKey(Head(ids), userId) \in st.keys
    THEN OldDisconnectFanOut(st, Tail(ids), userId)
    ELSE OldDisconnectFanOut(
            [table |-> PresenceRemove(st.table, Head(ids), userId),
             keys |-> st.keys \cup {DisconnectKey(Head(ids), userId)},
             pending |-> st.pending \cup {Head(ids)}],
            Tail(ids), userId)

\* the handler up to await Promise.race([Promise.allSettled(...), 10 s]);
\* with nothing to wait for it goes on to connections.delete(socket.id)
OldDisconnectStart(s) ==
    /\ events < MaxOldEvents
    /\ s \in open
    /\ events' = events + 1
    /\ connectionCount' = connectionCount - 1
    /\ open' = open \ {s}
    /\ rooms' = [rooms EXCEPT ![s] = {}]
    /\ joined' = [joined EXCEPT ![s] = {}]
    /\ owed' = owed \cup joined[s]
    /\ emitted' = <<>>
    /\ IF s \in DOMAIN connections /\ connections[s].userId # Null
       THEN LET userId == connections[s].userId
                st == OldDisconnectFanOut(
                         [table |-> activities, keys |-> operationsInProgress,
                          pending |-> {}],
                         connections[s].activityIds, userId)
            IN  /\ activities' = st.table
                /\ operationsInProgress' = st.keys
                /\ IF st.pending = {}
                   THEN /\ connections' = MapDelete(connections, s)
                        /\ UNCHANGED tasks
                   ELSE /\ Len(tasks) < MaxTasks
                        /\ tasks' = Append(tasks,
                               Task("olddisconnect", "updateOne", s, Null,
                                    userId, NoDoc, [pending |-> st.pending]))
                        /\ UNCHANGED connections
       ELSE /\ connections' = MapDelete(connections, s)
            /\ UNCHANGED <<activities, operationsInProgress, tasks>>
    /\ UNCHANGED <<isMongoConnected, db, faults, tagHist, ignored>>

\* one activity's race settles: the update answered ("ok"), failed
\* ("error"), or the three-second timer won ("timeout"); its key is deleted;
\* when the last one has settled the handler deletes the registry record.
\* Every race settles within three seconds, so the ten-second cap never wins.
OldDisconnectSettle(i, activityId) ==
    /\ i \in 1..Len(tasks)
    /\ tasks[i].kind = "olddisconnect"
    /\ activityId \in tasks[i].aux.pending
    /\ \E outcome \in {"ok", "error", "timeout"} :
         /\ db' = IF outcome = "error" THEN db
                  ELSE UpdateDisconnected(db, activityId, tasks[i].user)
         /\ faults' = (faults \/ outcome # "ok")
    /\ operationsInProgress' =
         EndOperation(DisconnectKey(activityId, tasks[i].user))
    /\ IF tasks[i].aux.pending = {activityId}
       THEN /\ connections' = MapDelete(connections, tasks[i].sock)
            /\ tasks' = RemoveAt(tasks, i)
       ELSE /\ tasks' = [tasks EXCEPT ![i].aux.pending = @ \ {activityId}]
            /\ UNCHANGED connections
    /\ emitted' = <<>>
    /\ UNCHANGED <<connectionCount, activities, isMongoConnected, open, rooms,
                   events, joined, owed, tagHist, ignored>>

\* two sockets have connected (every connection gets a record)
InitOld ==
    /\ connectionCount = 2
    /\ connections = [s \in {"s1", "s2"} |->
                        [userId |-> Null, activityIds |-> <<>>]]
    /\ activities = <<>>
    /\ operationsInProgress = {}
    /\ open = {"s1", "s2"}
    /\ rooms = [s \in Sockets |-> {}]
    /\ tasks = <<>>
    /\ emitted = <<>>
    /\ events = 0
    /\ faults = FALSE
    /\ joined = [s \in Sockets |-> {}]
    /\ owed = {}
    /\ tagAdded = [k \in Activities \X TagIds |-> 0]
    /\ handled = [e \in TagEvents |-> 0]
    /\ approvals = 0
    /\ pre = NoPre
    /\ ignored = {}
    /\ isMongoConnected = TRUE
    /\ db = [a \in {"X"} |-> InitialDoc]

NextOld ==
    \/ \E s \in {"s1", "s2"}, u \in Users : OldJoinStart(s, "X", u)
    \/ \E s \in {"s1", "s2"}, u \in Users : OldLeaveStart(s, "X", u)
    \/ \E i \in 1..MaxTasks : OldJoinFindOne(i)
    \/ \E i \in 1..MaxTasks : OldJoinSave(i)
    \/ \E i \in 1..MaxTasks : OldLeaveUpdateOne(i)
    \/ \E i \in 1..MaxTasks : OldLeaveBackoff(i)
    \/ \E i \in 1..MaxTasks : OldLeaveFindOne(i)
    \/ \E s \in {"s1", "s2"} : OldDisconnectStart(s)
    \/ \E i \in 1..MaxTasks, a \in Activities : OldDisconnectSettle(i, a)
    \/ CleanupOperations
    \/ CleanupConnections

SpecOld == InitOld /\ [][NextOld]_vars

\* C18: in the previous server there are never two leave_activity handlers
\* for the same activity and user that both passed the operationsInProgress
\* check and have not finished, whatever the timers do in between.
C18_OneLeavePerKey ==
    \A i, j \in 1..Len(tasks) :
       (/\ i # j
        /\ tasks[i].kind = "oldleave" /\ tasks[j].kind = "oldleave"
        /\ tasks[i].act = tasks[j].act)
       => tasks[i].user # tasks[j].user


\* C19: a leave_activity handler that added its key to operationsInProgress
\* removes it when it finishes, however it finishes; so whenever no leave
\* handler is in flight, operationsInProgress holds no leave key.
LeaveInFlight ==
    \E i \in 1..Len(tasks) : tasks[i].kind \in {"leave", "oldleave"}

C19_LeaveKeyReleased ==
    ~LeaveInFlight => \A key \in operationsInProgress : key[1] # "leave"

\* a leave that went through the store has finished: the connection is still
\* open, its participant is stored as disconnected, and no key is left
C19_Witness ==
    /\ events = 3
    /\ open # {}
    /\ tasks = <<>>
    /\ operationsInProgress = {}
    /\ "X" \in DOMAIN db
    /\ \E k \in 1..Len(db["X"].participants) :
          ~db["X"].participants[k].isConnected


(***************************************************************************)
(* change_phase over every phase of the schema.  The activity has run to   *)
(* its last phase, so every first change is a backward one; two events     *)
(* reach every pair of current and requested phase.                        *)
(***************************************************************************)
MaxPhaseEvents == 2

InitPhase ==
    /\ InitAdmitted({"s1", "s2"})
    /\ db = [a \in {"X"} |-> [InitialDoc EXCEPT !.phase = "results"]]

NextPhase ==
    \/ MongoConnected
    \/ MongoDisconnected
    \/ \E s \in {"s1", "s2"}, a \in Activities, p \in Range(Phases) :
          events < MaxPhaseEvents /\ PhaseStart(s, a, p)
    \/ \E i \in 1..MaxTasks : PhaseFindOne(i)
    \/ \E i \in 1..MaxTasks : PhaseSave(i)

SpecPhase == InitPhase /\ [][NextPhase]_vars

\* C21: a change_phase handled with the store available and the activity
\* stored leaves the stored phase equal to the requested one, whatever the
\* phase was before; so after handlers that complete one after the other the
\* stored phase is the one the last of them asked for.
C21_PhaseOverwritten ==
    [][\A i \in 1..Len(tasks) :
          (/\ PhaseSave(i)
           /\ ~faults'
           /\ tasks[i].act \in DOMAIN db)
          => db'[tasks[i].act].phase = tasks[i].aux.phase]_vars

\* a change back from results to gathering was stored and announced
C21_Witness ==
    /\ ~faults
    /\ tasks = <<>>
    /\ db["X"].phase = "gathering"
    /\ emitted = <<ToOthers("phase_changed", "s1", "X", [phase |-> "gathering"])>>


\* C22: a newly admitted connection receives capacity_warning exactly when
\* connectionCount after its admission is at least SOFT_LIMIT; the warning
\* goes to that connection alone and is sent by no other step; and its
\* connection_accepted reports capacityLevel "high" exactly when it was warned.
Warnings(msgs) == {k \in 1..Len(msgs) : msgs[k].event = "capacity_warning"}

Welcomes(msgs) == {k \in 1..Len(msgs) : msgs[k].event = "connection_accepted"}

C22_WarningIffSaturated ==
    [][/\ \A s \in Sockets :
            (Connect(s) /\ connectionCount' # connectionCount) =>
               /\ (Warnings(emitted') # {}) <=> (connectionCount' >= SOFT_LIMIT)
               /\ Cardinality(Warnings(emitted')) <= 1
               /\ Cardinality(Welcomes(emitted')) = 1
               /\ \A k \in Welcomes(emitted') :
                     /\ emitted'[k].to = [mode |-> "socket", room |-> Null,
                                          sock |-> s]
                     /\ (emitted'[k].data.capacityLevel = "high")
                           <=> (Warnings(emitted') # {})
       /\ \A k \in Warnings(emitted') :
            /\ emitted'[k].to.mode = "socket"
            /\ Connect(emitted'[k].to.sock)
            /\ connectionCount' = connectionCount + 1]_vars

\* the second connection was admitted at the soft limit and warned, the
\* first, admitted below it, is still connected
C22_Witness ==
    /\ connectionCount = SOFT_LIMIT
    /\ open = {"s1", "s2"}
    /\ Len(emitted) = 2
    /\ emitted[1].event = "capacity_warning"
    /\ emitted[1].to.sock = "s2"
    /\ emitted[2].event = "connection_accepted"
    /\ emitted[2].data.capacityLevel = "high"

\* a connection admitted below the soft limit is welcomed without a warning
C22_BelowSoftLimit ==
    /\ connectionCount = 1
    /\ connectionCount < SOFT_LIMIT
    /\ emitted # <<>>
    /\ Warnings(emitted) = {}
    /\ \E k \in Welcomes(emitted) : emitted[k].data.capacityLevel = "normal"


(***************************************************************************)
(* One connection sends join_activity and, immediately after it,           *)
(* leave_activity for the same activity and user; nothing else arrives.    *)
(***************************************************************************)
InitOrder ==
    /\ InitAdmitted({"s1", "s2"})
    /\ db = [a \in Activities |-> InitialDoc]

NextOrder ==
    \/ \E s \in {"s1", "s2"}, a \in Activities, u \in Users :
          events = 0 /\ JoinStart(s, a, u)
    \/ \E s \in {"s1", "s2"}, a \in Activities, u \in Users :
          events = 1 /\ <<a, u>> \in joined[s] /\ LeaveStart(s, a, u)
    \/ \E i \in 1..MaxTasks : JoinFindOne(i)
    \/ \E i \in 1..MaxTasks : JoinSave(i)
    \/ \E i \in 1..MaxTasks : LeaveUpdateOne(i)

SpecOrder == InitOrder /\ [][NextOrder]_vars

\* C23: the effects of a connection's events are applied in delivery order;
\* so once a join_activity and the leave_activity that followed it have both
\* been handled without a store failure, the participant is absent from
\* presence and no stored participant is marked connected.
C23_JoinThenLeaveEndsLeft ==
    (events = 2 /\ tasks = <<>> /\ ~faults) =>
       /\ activities = <<>>
       /\ \A a \in DOMAIN db : \A k \in 1..Len(db[a].participants) :
             ~db[a].participants[k].isConnected


\* C24: the registry record of a connection is removed in the step in which
\* its disconnect handler starts; so no state holds a record for a
\* connection whose disconnect handling has begun.
C24_RecordGoneOnceDisconnectBegan == DOMAIN connections \subseteq open


\* C25: no fault raised while handling an inbound event escapes its handler;
\* in particular no join_activity handler, whatever its payload lacks, ends
\* by an exception thrown outside its try blocks.
C25_NoFaultEscapes ==
    [][/\ \A s \in Sockets, a \in Activities \cup {Null}, u \in Users \cup {Null} :
            (/\ JoinStart(s, a, u)
             /\ ~AlreadyJoined(s, a)
             /\ tasks' = tasks)
            => ~JoinThrows(a, u, activities')
       /\ \A i \in 1..Len(tasks) :
            (/\ tasks[i].kind = "join"
             /\ JoinFindOne(i) \/ JoinSave(i)
             /\ Len(tasks') < Len(tasks))
            => ~JoinThrows(tasks[i].act, tasks[i].user, activities)]_vars


\* C26: in the previous server a leave_activity for a participant who is in
\* the presence entry ends with a participants_updated broadcast to the
\* room, also when every store operation of the handler fails or times out.
C26_LeaveAlwaysBroadcasts ==
    [][\A i \in 1..Len(tasks) :
          (tasks[i].kind = "oldleave" /\ OldLeaveFindOne(i))
          => \E k \in 1..Len(emitted') :
                /\ emitted'[k].event = "participants_updated"
                /\ emitted'[k].to = [mode |-> "room", room |-> tasks[i].act,
                                     sock |-> Null]]_vars


\* C27: the Presence Table never maps an activity id to an empty set of
\* participants: leave, disconnect and the stale-connection sweep drop an
\* entry in the step in which they remove its last participant.
C27_NoEmptyPresenceEntry ==
    \A a \in DOMAIN activities : activities[a] # {}

\* the only participant of X has left or disconnected (the store records
\* it) and the table has no entry left
C27_Witness ==
    /\ activities = <<>>
    /\ tasks = <<>>
    /\ Len(db["X"].participants) = 1
    /\ ~db["X"].participants[1].isConnected


\* C28: the previous server's leave_activity issues its store update at most
\* MAX_RETRY_ATTEMPTS (3) times: a handler waiting for an attempt or a
\* backoff has failed fewer than three times, a handler that failed three
\* times is at the broadcast step, and a handler at the broadcast step (after
\* an attempt that returned without error, or after the third failure) never
\* goes back to the update.
C28_AtMostThreeAttempts ==
    [][/\ \A i \in 1..Len(tasks') :
            tasks'[i].kind = "oldleave" =>
               /\ tasks'[i].aux.retryCount <= 3
               /\ tasks'[i].pc \in {"updateOne", "backoff"}
                     => tasks'[i].aux.retryCount < 3
               /\ tasks'[i].aux.retryCount = 3 => tasks'[i].pc = "findOne"
       /\ \A i \in 1..Len(tasks) :
            (/\ tasks[i].kind = "oldleave"
             /\ tasks[i].pc = "findOne"
             /\ Len(tasks') = Len(tasks))
            => tasks'[i] = tasks[i]
       /\ \A i \in 1..Len(tasks) :
            (tasks[i].kind = "oldleave" /\ OldLeaveUpdateOne(i)) =>
               \/ tasks'[i].pc = "findOne"
               \/ tasks'[i].aux.retryCount = tasks[i].aux.retryCount + 1]_vars

\* three attempts have failed and the handler waits for the read that
\* precedes its broadcast
C28_Witness ==
    \E i \in 1..Len(tasks) :
       /\ tasks[i].kind = "oldleave"
       /\ tasks[i].pc = "findOne"
       /\ tasks[i].aux.retryCount = 3


\* C29: in the previous server a disconnect removes the connection's
\* participant from the presence entry of every activity the connection had
\* joined, whatever the store does.
C29_DisconnectClearsPresence ==
    [][\A s \in Sockets :
          (/\ OldDisconnectStart(s)
           /\ s \in DOMAIN connections
           /\ connections[s].userId # Null)
          => \A a \in Range(connections[s].activityIds) :
                connections[s].userId
                   \notin getActivityParticipants(activities', a)]_vars


(***************************************************************************)
(* A connection that joined X and Y as A disconnects while the store       *)
(* accepts the update for its first activity and never answers it: the     *)
(* step that completes a disconnect's update is left out.  The periodic    *)
(* sweep keeps running.                                                    *)
(***************************************************************************)
InitHung ==
    /\ connectionCount = 2
    /\ connections = [s \in {"s1", "s2"} |->
                        IF s = "s1"
                        THEN [userId |-> "A", activityIds |-> <<"X", "Y">>]
                        ELSE [userId |-> Null, activityIds |-> <<>>]]
    /\ activities = [a \in Activities |-> {"A"}]
    /\ operationsInProgress = {}
    /\ open = {"s1", "s2"}
    /\ rooms = [s \in Sockets |-> IF s = "s1" THEN Activities ELSE {}]
    /\ tasks = <<>>
    /\ emitted = <<>>
    /\ events = 0
    /\ faults = FALSE
    /\ joined = [s \in Sockets |->
                   IF s = "s1" THEN {<<a, "A">> : a \in Activities} ELSE {}]
    /\ owed = {}
    /\ tagAdded = [k \in Activities \X TagIds |-> 0]
    /\ handled = [e \in TagEvents |-> 0]
    /\ approvals = 0
    /\ pre = NoPre
    /\ ignored = {}
    /\ isMongoConnected = TRUE
    /\ db = [a \in Activities |->
               [InitialDoc EXCEPT
                  !.participants = <<[id |-> "A", isConnected |-> TRUE]>>,
                  !.v = 1]]

NextHung ==
    \/ MongoConnected
    \/ MongoDisconnected
    \/ \E s \in {"s1", "s2"} : DisconnectStart(s)
    \/ \E a \in Activities : JoinStart("s2", a, "B")
    \/ \E i \in 1..MaxTasks : JoinFindOne(i)
    \/ \E i \in 1..MaxTasks : JoinSave(i)
    \/ StaleSweep

SpecHung == InitHung /\ [][NextHung]_vars /\ WF_vars(StaleSweep)

\* C30: when a connection that joined X and Y disconnects, its participant
\* leaves the presence entry of the second activity and its registry record
\* is deleted also when the store update for the first activity never
\* completes.
C30_CleanupWithoutStore ==
    ("s1" \notin open) ~>
       (/\ "s1" \notin DOMAIN connections
        /\ \A a \in Activities : "A" \notin getActivityParticipants(activities, a))

\* the update for X is still unanswered, and the record and both presence
\* entries of A are gone
C30_Witness ==
    /\ \E i \in 1..Len(tasks) :
          /\ tasks[i].kind = "disconnect"
          /\ tasks[i].sock = "s1"
          /\ tasks[i].act = "X"
          /\ tasks[i].aux = <<"Y">>
    /\ "s1" \notin DOMAIN connections
    /\ \A a \in Activities : "A" \notin getActivityParticipants(activities, a)


(***************************************************************************)
(* One add_tag of T2 and one delete_tag of T1 on the stored activity X,    *)
(* sent by connections that joined it, in either order.                    *)
(***************************************************************************)
AddsSent == handled[<<"add", "X", "T2">>]

InitAddDelete == InitJoined

NextAddDelete ==
    \/ MongoConnected
    \/ MongoDisconnected
    \/ \E s \in {"s1", "s2"} :
          AddsSent = 0 /\ AddTagStart(s, "X", "T2", <<>>)
    \/ \E s \in {"s1", "s2"} :
          events = AddsSent /\ DeleteTagStart(s, "X", "T1")
    \/ \E i \in 1..MaxTasks : AddTagFindOne(i)
    \/ \E i \in 1..MaxTasks : AddTagSave(i)
    \/ \E i \in 1..MaxTasks : DeleteTagFindOne(i)
    \/ \E i \in 1..MaxTasks : DeleteTagSave(i)

SpecAddDelete == InitAddDelete /\ [][NextAddDelete]_vars

\* C31: when an add_tag of T2 and a delete_tag of T1 on the same activity
\* interleave at the store and both handlers have completed with the store
\* answering, the stored tag list holds T2 and does not hold T1.
C31_AddAndDeleteBothKept ==
    (events = 2 /\ tasks = <<>> /\ ~faults) =>
       /\ TagIndex(db["X"], "T2") # 0
       /\ TagIndex(db["X"], "T1") = 0


\* C32: an update_mapping that carries no isComplete leaves the flag of every
\* stored submission as it was and stores a new submission with the flag
\* false; a flag becomes true only through an event carrying isComplete true.
C32_CompletionOnlyIfProvided ==
    [][\A i \in 1..Len(tasks) :
          (/\ tasks[i].kind = "update_mapping"
           /\ tasks[i].act \in DOMAIN db
           /\ MappingSave(i))
          => \A k \in 1..Len(db'[tasks[i].act].mappings) :
                LET new == db'[tasks[i].act].mappings[k]
                    carried == tasks[i].aux.isComplete
                IN  IF k <= Len(db[tasks[i].act].mappings)
                    THEN new.isComplete # db[tasks[i].act].mappings[k].isComplete
                            => /\ carried # Null
                               /\ new.isComplete = (carried = "true")
                    ELSE new.isComplete = (carried = "true")]_vars

\* an event without the flag has moved the positions of a submission that
\* is complete, and it is still complete
C32_Witness ==
    /\ tasks = <<>>
    /\ ~faults
    /\ Len(emitted) = 1
    /\ emitted[1].event = "mapping_updated"
    /\ emitted[1].data = [userId |-> "A", positions |-> "p2", isComplete |-> Null]
    /\ db["X"].mappings = <<[userId |-> "A", positions |-> "p2",
                             isComplete |-> TRUE]>>
    /\ db["X"].v = 2


\* C33: the background sweep of operationsInProgress removes only keys held
\* for at least one cleanup interval.  The previous server's sweep empties
\* the set every interval, so every key it finds was inserted since the
\* sweep before it and has to be in the set after it.
C33_SweepKeepsFreshKeys ==
    [][CleanupOperations => operationsInProgress \subseteq operationsInProgress']_vars


\* C34: the disconnect of a connection that never joined an activity (its
\* registry userId is still null, or it has no record) changes no presence
\* entry, writes nothing to the store, starts no store call and emits
\* nothing; it decrements connectionCount and removes the connection's
\* record, and no other record.
C34_DisconnectWithoutJoin ==
    [][\A s \in Sockets :
          (/\ DisconnectStart(s)
           /\ s \in DOMAIN connections => connections[s].userId = Null)
          => /\ activities' = activities
             /\ db' = db
             /\ tasks' = tasks
             /\ operationsInProgress' = operationsInProgress
             /\ emitted' = <<>>
             /\ connectionCount' = connectionCount - 1
             /\ DOMAIN connections' = DOMAIN connections \ {s}
             /\ \A s2 \in DOMAIN connections' : connections'[s2] = connections[s2]]_vars

\* a connection was admitted and has disconnected without joining: the two
\* events leave the count at zero, no record, no presence entry, no store call
C34_Witness ==
    /\ events = 2
    /\ connectionCount = 0
    /\ connections = <<>>
    /\ activities = <<>>
    /\ tasks = <<>>
    /\ emitted = <<>>


\* C35: a connection is subscribed to the room of activity X exactly when X
\* is in its registry activityIds, after any sequence of join_activity and
\* leave_activity events.
C35_RoomsMatchRegistry ==
    \A s \in open :
       s \in DOMAIN connections => rooms[s] = Range(connections[s].activityIds)


\* C36: a leave_activity sent on a connection removes from the Presence
\* Table only a participant id the connection itself joined that activity
\* with: the presence of any other id in that activity is left as it was.
C36_LeaveOnlyOwnParticipant ==
    [][\A s \in Sockets, a \in Activities, u \in Users :
          (LeaveStart(s, a, u) /\ <<a, u>> \notin joined[s])
          => (u \in getActivityParticipants(activities', a))
                = (u \in getActivityParticipants(activities, a))]_vars


\* C37: connectionCount is never negative, never above MAX_CONNECTIONS, and
\* equals the number of admitted connections whose disconnect has not been
\* handled yet, for any interleaving of connections and disconnects.
C37_CountMatchesAdmitted ==
    /\ 0 <= connectionCount
    /\ connectionCount <= MAX_CONNECTIONS
    /\ connectionCount = Cardinality(open)

\* the server had filled up, one connection has disconnected and the one
\* admitted in its place is counted
C37_Witness ==
    /\ events = 5
    /\ connectionCount = MAX_CONNECTIONS
    /\ open = {"s2", "s3", "s4"}
    /\ Len(emitted) = 2
    /\ emitted[2].event = "connection_accepted"
    /\ emitted[2].to.sock = "s4"


\* C38: once the disconnect handler of a connection has completed, every
\* participant id the connection joined an activity with is out of that
\* activity's presence entry unless another registered connection claims it
\* there; also when the connection joined activities with different userIds.
C38_DisconnectClearsEveryJoin ==
    [][\A s \in Sockets :
          (DisconnectStart(s) /\ s \notin DOMAIN connections')
          => \A pr \in joined[s] :
                (\A s2 \in Sockets \ {s} : ~ClaimsAs(s2, pr[1], pr[2]))
                => pr[2] \notin getActivityParticipants(activities', pr[1])]_vars


\* the handlers C39 is about, and the broadcast each owes
AnnouncedEdits == {"vote", "delete_tag", "update_mapping", "change_phase"}

AnnouncedBroadcasts ==
    {"tag_voted", "tag_deleted", "mapping_updated", "phase_changed"}

BroadcastOwed(t) ==
    CASE t.kind = "vote" ->
           Msg("tag_voted", "roomExcept", t.act, t.sock,
               [tagId |-> t.aux.tag, userId |-> t.user])
      [] t.kind = "delete_tag" -> ToOthers("tag_deleted", t.sock, t.act, t.aux)
      [] t.kind = "update_mapping" ->
           ToOthers("mapping_updated", t.sock, t.act, t.aux)
      [] t.kind = "change_phase" -> ToOthers("phase_changed", t.sock, t.act, t.aux)

\* task i, one of these handlers, takes a step
AnnouncedStep(i) ==
    /\ i \in 1..Len(tasks)
    /\ tasks[i].kind \in AnnouncedEdits
    /\ \/ VoteFindOne(i) \/ VoteSave(i)
       \/ DeleteTagFindOne(i) \/ DeleteTagSave(i)
       \/ MappingFindOne(i) \/ MappingSave(i)
       \/ PhaseFindOne(i) \/ PhaseSave(i)

\* the event of task t has just arrived: with the store connected the handler
\* is suspended and silent, otherwise it has ended with its broadcast
AnnouncedStart(t) ==
    /\ db' = db
    /\ IF isMongoConnected
       THEN emitted' = <<>> /\ tasks' = Append(tasks, t)
       ELSE emitted' = <<BroadcastOwed(t)>> /\ tasks' = tasks

=============================================================================
